---- MODULE Spec2Model ----
(***************************************************************************)
(* Model of the routing core of the subgraph mocking proxy:                *)
(*   - SubgraphHealthMonitor (src/src/services/SubgraphHealthMonitor.ts)   *)
(*   - SubgraphRegistry      (src/src/utils/queryUtils.ts, second half)    *)
(*   - the POST /:encodedUrl route (src/src/server.ts)                     *)
(* Health probes are asynchronous: checkHealth reads the URL of the state, *)
(* suspends on the HTTP call and applies the outcome to whatever state is  *)
(* registered under the name when the call returns.                        *)
(***************************************************************************)
EXTENDS Integers, Sequences, FiniteSets, Bags, TLC

\* ---------------------------------------------------------------- bounds
MaxRetriesBound == 2
MaxFailures == 3
MaxInflight == 2

\* ---------------------------------------------------------------- inputs
Names == {"a", "b"}
Urls == {"u1", "u2"}
NoUrl == "undefined"
NoName == "undefined"
OptUrls == Urls \cup {NoUrl}

\* SubgraphConfigItem as accepted by the zod schema: forceMock and
\* disableMocking are never both true; maxRetries is an integer >= 0.
SubgraphConfigItem ==
  { c \in [forceMock : BOOLEAN, disableMocking : BOOLEAN,
           maxRetries : {0, MaxRetriesBound}] :
      /\ ~(c.forceMock /\ c.disableMocking)
      /\ (c.forceMock \/ c.disableMocking) => c.maxRetries = MaxRetriesBound }

DEFAULT_SUBGRAPH_CONFIG ==
  [forceMock |-> FALSE, disableMocking |-> FALSE, maxRetries |-> MaxRetriesBound]

VARIABLES
  states,                \* SubgraphHealthMonitor.states : name -> SubgraphState
  healthCheckIntervals,  \* SubgraphHealthMonitor.healthCheckIntervals (names with a timer)
  registry,              \* SubgraphRegistry.registry, in Map insertion order
  checkInterval,         \* SubgraphRegistry.checkInterval is set
  startPc,               \* position of SubgraphRegistry.startHealthChecks
  inflight,              \* bag of probes suspended on the HTTP call
  upstream,              \* url -> the upstream answers the probe with 200
  passthroughEnabled,    \* env.ENABLE_PASSTHROUGH
  lastEvent,             \* what the last step answered: the dispatch of a proxy
                         \* request or the outcome of a returned probe
  now,                   \* Date.now(), in ticks
  cache,                 \* SchemaCache.cache : name -> CachedSchemaEntry
  loads,                 \* bag of loadAndCacheSchema calls suspended on their source
  sourceOk,              \* name -> the configured schema source delivers an SDL
  refreshInterval,       \* SchemaCache.refreshInterval is set
  timers,                \* number of live setInterval timers of the SchemaCache
  cacheEvent,            \* what the last SchemaCache step did
  response,              \* what the handlers answered to the last proxy request
  subgraphConfigs,       \* SchemaCache.subgraphConfigs : name -> where to load from
  loadedFrom,            \* name -> the source that the sdl of its entry came from
  initPc,                \* position of SubgraphInitializer.mergeAndRegister
  server,                \* MockingProxyServer.server: the listener
  isShuttingDown,        \* MockingProxyServer.isShuttingDown
  stopPc,                \* state of the promise that stop() returned
  openRequests,          \* requests that the listener has accepted and not answered
  remembered,            \* inputs and decision of an earlier proxy request
  introspection          \* the IntrospectionService.introspect call: its loop state

monitorVars == <<states, healthCheckIntervals, registry, checkInterval, startPc,
                 inflight, upstream, passthroughEnabled, lastEvent>>

cacheVars == <<now, cache, loads, sourceOk, refreshInterval, timers, cacheEvent>>

sourceVars == <<subgraphConfigs, loadedFrom>>

serverVars == <<initPc, server, isShuttingDown, stopPc, openRequests, remembered>>

vars == <<states, healthCheckIntervals, registry, checkInterval, startPc,
          inflight, upstream, passthroughEnabled, lastEvent,
          now, cache, loads, sourceOk, refreshInterval, timers, cacheEvent,
          response, subgraphConfigs, loadedFrom, initPc, server, isShuttingDown,
          stopPc, openRequests, remembered, introspection>>

NoEvent == [kind |-> "none", name |-> NoName, url |-> NoUrl, result |-> "none"]

\* No error: axios.post returned.
NoError == [axios |-> FALSE, code |-> "none", response |-> FALSE]

\* attempted: the handler asked the SchemaCache for the schema; written: the
\* number of responses it wrote.
NoResponse ==
  [kind |-> "none", name |-> NoName, url |-> NoUrl, introspection |-> FALSE,
   error |-> NoError, cacheCanSupply |-> FALSE, status |-> 0, code |-> "none",
   mode |-> "none", cacheFallback |-> FALSE, attempted |-> FALSE,
   written |-> 0]

\* ------------------------------------------------------- Map helpers
MapSet(m, k, v) == [x \in DOMAIN m \cup {k} |-> IF x = k THEN v ELSE m[x]]

RegistryNames == {registry[i].name : i \in 1..Len(registry)}

\* Index of name in the registry, 0 when absent.
RegistryIndex(name) ==
  IF name \in RegistryNames
    THEN CHOOSE i \in 1..Len(registry) : registry[i].name = name
    ELSE 0

\* ------------------------------------------------ SubgraphHealthMonitor

\* registerSubgraph: the initial state
InitialState(url, config) ==
  [url |-> url,
   status |-> "unknown",
   isMocking |-> (config.forceMock \/ url = NoUrl),
   isHealthy |-> FALSE,
   consecutiveFailures |-> 0,
   config |-> config]

\* Variant of updateStateFromHealthCheck that leaves isMocking as it was
\* when the probe succeeds.
UpdateKeepsMocking(state, isHealthy) ==
  IF isHealthy
    THEN [state EXCEPT !.isHealthy = TRUE,
                       !.consecutiveFailures = 0,
                       !.status = "available"]
    ELSE LET failures == state.consecutiveFailures + 1
             shouldMock == state.config.forceMock
                           \/ (~state.config.disableMocking
                               /\ failures >= state.config.maxRetries)
         IN IF shouldMock
              THEN [state EXCEPT !.isHealthy = FALSE,
                                 !.consecutiveFailures = failures,
                                 !.status = "mocking",
                                 !.isMocking = TRUE]
              ELSE [state EXCEPT !.isHealthy = FALSE,
                                 !.consecutiveFailures = failures,
                                 !.status = "unavailable"]

\* Variant of updateStateFromHealthCheck that clears isMocking on success
\* whatever forceMock says.
UpdateIgnoresForceMock(state, isHealthy) ==
  IF isHealthy
    THEN [state EXCEPT !.isHealthy = TRUE,
                       !.consecutiveFailures = 0,
                       !.status = "available",
                       !.isMocking = FALSE]
    ELSE LET failures == state.consecutiveFailures + 1
             shouldMock == state.config.forceMock
                           \/ (~state.config.disableMocking
                               /\ failures >= state.config.maxRetries)
         IN IF shouldMock
              THEN [state EXCEPT !.isHealthy = FALSE,
                                 !.consecutiveFailures = failures,
                                 !.status = "mocking",
                                 !.isMocking = TRUE]
              ELSE [state EXCEPT !.isHealthy = FALSE,
                                 !.consecutiveFailures = failures,
                                 !.status = "unavailable"]

\* Variant of updateStateFromHealthCheck that starts mocking one failure
\* late (failures > maxRetries).
UpdateMocksLate(state, isHealthy) ==
  IF isHealthy
    THEN [state EXCEPT !.isHealthy = TRUE,
                       !.consecutiveFailures = 0,
                       !.status = "available",
                       !.isMocking = state.config.forceMock]
    ELSE LET failures == state.consecutiveFailures + 1
             shouldMock == state.config.forceMock
                           \/ (~state.config.disableMocking
                               /\ failures > state.config.maxRetries)
         IN IF shouldMock
              THEN [state EXCEPT !.isHealthy = FALSE,
                                 !.consecutiveFailures = failures,
                                 !.status = "mocking",
                                 !.isMocking = TRUE]
              ELSE [state EXCEPT !.isHealthy = FALSE,
                                 !.consecutiveFailures = failures,
                                 !.status = "unavailable"]

\* Variant of updateStateFromHealthCheck that does not reset the failure
\* counter when the probe succeeds.
UpdateKeepsFailures(state, isHealthy) ==
  IF isHealthy
    THEN [state EXCEPT !.isHealthy = TRUE,
                       !.status = "available",
                       !.isMocking = state.config.forceMock]
    ELSE LET failures == state.consecutiveFailures + 1
             shouldMock == state.config.forceMock
                           \/ (~state.config.disableMocking
                               /\ failures >= state.config.maxRetries)
         IN IF shouldMock
              THEN [state EXCEPT !.isHealthy = FALSE,
                                 !.consecutiveFailures = failures,
                                 !.status = "mocking",
                                 !.isMocking = TRUE]
              ELSE [state EXCEPT !.isHealthy = FALSE,
                                 !.consecutiveFailures = failures,
                                 !.status = "unavailable"]

\* Variant of updateStateFromHealthCheck whose success branch leaves the
\* health flag as it was.
UpdateStaysUnhealthy(state, isHealthy) ==
  IF isHealthy
    THEN [state EXCEPT !.isHealthy = state.isHealthy,
                       !.consecutiveFailures = 0,
                       !.status = "available",
                       !.isMocking = state.config.forceMock]
    ELSE LET failures == state.consecutiveFailures + 1
             shouldMock == state.config.forceMock
                           \/ (~state.config.disableMocking
                               /\ failures >= state.config.maxRetries)
         IN IF shouldMock
              THEN [state EXCEPT !.isHealthy = FALSE,
                                 !.consecutiveFailures = failures,
                                 !.status = "mocking",
                                 !.isMocking = TRUE]
              ELSE [state EXCEPT !.isHealthy = FALSE,
                                 !.consecutiveFailures = failures,
                                 !.status = "unavailable"]

\* Variant of updateStateFromHealthCheck that leaves the status as it was
\* when a failed probe does not start mocking.
UpdateLeavesStatus(state, isHealthy) ==
  IF isHealthy
    THEN [state EXCEPT !.isHealthy = TRUE,
                       !.consecutiveFailures = 0,
                       !.status = "available",
                       !.isMocking = state.config.forceMock]
    ELSE LET failures == state.consecutiveFailures + 1
             shouldMock == state.config.forceMock
                           \/ (~state.config.disableMocking
                               /\ failures >= state.config.maxRetries)
         IN IF shouldMock
              THEN [state EXCEPT !.isHealthy = FALSE,
                                 !.consecutiveFailures = failures,
                                 !.status = "mocking",
                                 !.isMocking = TRUE]
              ELSE [state EXCEPT !.isHealthy = FALSE,
                                 !.consecutiveFailures = failures]

\* updateStateFromHealthCheck, applied to an existing state
UpdateStateFromHealthCheck(state, isHealthy) ==
  IF isHealthy
    THEN [state EXCEPT !.isHealthy = TRUE,
                       !.consecutiveFailures = 0,
                       !.status = "available",
                       !.isMocking = state.config.forceMock]
    ELSE LET failures == state.consecutiveFailures + 1
             shouldMock == state.config.forceMock
                           \/ (~state.config.disableMocking
                               /\ failures >= state.config.maxRetries)
         IN IF shouldMock
              THEN [state EXCEPT !.isHealthy = FALSE,
                                 !.consecutiveFailures = failures,
                                 !.status = "mocking",
                                 !.isMocking = TRUE]
              ELSE [state EXCEPT !.isHealthy = FALSE,
                                 !.consecutiveFailures = failures,
                                 !.status = "unavailable"]

\* Variant of setHealth that leaves isHealthy as it was on a failure.
SetHealthKeepsHealthy(state, isHealthy) ==
  IF isHealthy
    THEN [state EXCEPT !.isHealthy = TRUE,
                       !.consecutiveFailures = 0,
                       !.status = "available",
                       !.isMocking = state.config.forceMock]
    ELSE LET failures == state.consecutiveFailures + 1
         IN IF failures >= state.config.maxRetries /\ ~state.config.disableMocking
              THEN [state EXCEPT !.consecutiveFailures = failures,
                                 !.status = "mocking",
                                 !.isMocking = TRUE]
              ELSE [state EXCEPT !.consecutiveFailures = failures,
                                 !.status = "unavailable"]

\* setHealth, applied to an existing state
SetHealthState(state, isHealthy) ==
  IF isHealthy
    THEN [state EXCEPT !.isHealthy = TRUE,
                       !.consecutiveFailures = 0,
                       !.status = "available",
                       !.isMocking = state.config.forceMock]
    ELSE LET failures == state.consecutiveFailures + 1
         IN IF failures >= state.config.maxRetries /\ ~state.config.disableMocking
              THEN [state EXCEPT !.isHealthy = FALSE,
                                 !.consecutiveFailures = failures,
                                 !.status = "mocking",
                                 !.isMocking = TRUE]
              ELSE [state EXCEPT !.isHealthy = FALSE,
                                 !.consecutiveFailures = failures,
                                 !.status = "unavailable"]

\* The failure counter is capped so that the state space is finite.
CanApply(name, isHealthy) ==
  name \in DOMAIN states =>
    (isHealthy \/ states[name].consecutiveFailures < MaxFailures)

\* The synchronous part of checkHealth(name) for the names in `names`:
\* a name without state throws (the caller catches or rejects), a state
\* without url fails at once, a state with url suspends on the HTTP call.
ProbesFor(names, init) ==
  LET withUrl == {n \in names \cap DOMAIN states : states[n].url # NoUrl}
  IN SetToBag({[name |-> n, url |-> states[n].url, init |-> init] : n \in withUrl})

StatesAfterLaunch(names) ==
  [n \in DOMAIN states |->
     IF n \in names /\ states[n].url = NoUrl
       THEN UpdateStateFromHealthCheck(states[n], FALSE)
       ELSE states[n]]

LaunchAllowed(names, init) ==
  /\ BagCardinality(inflight (+) ProbesFor(names, init)) <= MaxInflight
  /\ \A n \in names : (n \in DOMAIN states /\ states[n].url = NoUrl) => CanApply(n, FALSE)

\* ------------------------------------------------------ SubgraphRegistry

SubgraphIsAvailable(name) ==
  IF name \in DOMAIN states THEN states[name].isHealthy ELSE FALSE

SubgraphIsMocking(name) ==
  IF name \in DOMAIN states THEN states[name].isMocking ELSE FALSE

\* getSubgraphByUrl: index of the first entry with this url, 0 when none
GetSubgraphByUrl(url) ==
  LET hits == {i \in 1..Len(registry) : registry[i].url = url}
  IN IF hits = {} THEN 0 ELSE CHOOSE i \in hits : \A j \in hits : i <= j

\* getSubgraphByName: index of the entry, 0 when none
GetSubgraphByName(name) == RegistryIndex(name)

\* Variant of isSubgraphAvailable that probes the url on every call.
IsSubgraphAvailableLive(url) == upstream[url]

\* isSubgraphAvailable for a url that some entry has: the cached isHealthy
\* of the first entry with that url.  (For a url of no entry the code makes
\* a live probe; shouldPassthroughToSubgraph only passes urls of entries.)
IsSubgraphAvailable(url) ==
  LET i == GetSubgraphByUrl(url)
  IN IF i = 0 THEN upstream[url] ELSE SubgraphIsAvailable(registry[i].name)

\* Variant of shouldPassthroughToSubgraph that falls back to the url when
\* the name is not registered.
ShouldPassthroughUrlFallback(name, url) ==
  IF ~passthroughEnabled THEN FALSE
  ELSE LET byName == IF name # NoName THEN GetSubgraphByName(name) ELSE 0
           i == IF byName # 0 THEN byName
                ELSE IF url # NoUrl THEN GetSubgraphByUrl(url)
                ELSE 0
       IN IF i = 0 THEN FALSE
          ELSE IF SubgraphIsMocking(registry[i].name) THEN FALSE
          ELSE IsSubgraphAvailable(registry[i].url)

ShouldPassthroughToSubgraph(name, url) ==
  IF ~passthroughEnabled THEN FALSE
  ELSE LET i == IF name # NoName THEN GetSubgraphByName(name)
                ELSE IF url # NoUrl THEN GetSubgraphByUrl(url)
                ELSE 0
       IN IF i = 0 THEN FALSE
          ELSE IF SubgraphIsMocking(registry[i].name) THEN FALSE
          ELSE IsSubgraphAvailable(registry[i].url)

\* ---------------------------------------------------------- SchemaCache
\* (src/src/services/SchemaCache.ts).  The source of a schema (file,
\* introspection or the registry client, chosen from the subgraph's config)
\* is abstracted to whether it delivers an SDL at the time the load returns:
\* introspection delivers while the upstream behind the url is up, and
\* sourceOk[name] tells whether the source outside the subgraph (its schema
\* file when one is configured, else the registry) delivers.

Ttl == 2
MaxTime == 3
MaxLoads == 2
MaxTimers == 2

NoEntry == [lastFetched |-> -1, expiresAt |-> -1]

NoCacheEvent ==
  [kind |-> "none", name |-> NoName, op |-> "none", entry |-> NoEntry,
   names |-> {}, raised |-> FALSE]

\* The CachedSchemaEntry that loadAndCacheSchema stores at time t.
CachedSchemaEntry(t) == [lastFetched |-> t, expiresAt |-> t + Ttl]

\* Variant of the hit test of getSchema that ignores the expiry.
CacheHitIgnoresExpiry(name) == name \in DOMAIN cache

\* getSchema's hit test: cached && cached.expiresAt > now
CacheHit(name) == name \in DOMAIN cache /\ cache[name].expiresAt > now

\* Variant of has that still answers true at the instant of expiry.
HasAtExpiry(name) ==
  IF name \notin DOMAIN cache THEN FALSE ELSE cache[name].expiresAt >= now

\* SchemaCache.has(name)
Has(name) ==
  IF name \notin DOMAIN cache THEN FALSE ELSE cache[name].expiresAt > now

\* Variant of refreshAllSchemas that skips the expired entries.
RefreshNamesUnexpired == {n \in DOMAIN cache : cache[n].expiresAt > now}

\* refreshAllSchemas: Array.from(this.cache.keys())
RefreshNames == DOMAIN cache

\* Variant of startPeriodicRefresh without the already-running check.
StartNeverRejected == FALSE

\* startPeriodicRefresh: if (this.refreshInterval) throw
StartRejected == refreshInterval

\* getSchema rethrows a failed load; warmCache and refreshAllSchemas catch
\* it per name.
Raises(op) == op = "get"

\* What setSubgraphConfig stores of a subgraph: the url and the two fields
\* of the config that loadAndCacheSchema reads.
SchemaConfigs == [url : OptUrls, schemaFile : BOOLEAN, useLocalSchema : BOOLEAN]

\* The part of DEFAULT_SUBGRAPH_CONFIG that the cache reads, stored with url.
DefaultSchemaConfig(url) ==
  [url |-> url, schemaFile |-> FALSE, useLocalSchema |-> FALSE]

\* The source that loadAndCacheSchema picks under configuration c.
SourceOf(c) ==
  IF c.schemaFile THEN "file"
  ELSE IF c.useLocalSchema /\ c.url # NoUrl THEN "introspection"
  ELSE IF c.useLocalSchema THEN "error"
  ELSE "apollo"

\* loadAndCacheSchema's routing for a name (no stored config: the registry).
SchemaSource(name) ==
  IF name \in DOMAIN subgraphConfigs THEN SourceOf(subgraphConfigs[name])
                                     ELSE "apollo"

\* Variant of the load in which a failed introspection goes on to the
\* registry's schema.
SourceDeliversWithFallback(name) ==
  LET source == SchemaSource(name)
  IN IF source = "introspection"
       THEN upstream[subgraphConfigs[name].url] \/ sourceOk[name]
       ELSE source # "error" /\ sourceOk[name]

\* The picked source returns an SDL: loadFromFile, loadFromIntrospection
\* (throws unless result.success && result.sdl) or loadFromApollo.
SourceDelivers(name) ==
  LET source == SchemaSource(name)
  IN IF source = "introspection"
       THEN upstream[subgraphConfigs[name].url]
       ELSE source # "error" /\ sourceOk[name]

\* Variant in which a failed load of a warm-up or a refresh cycle takes the
\* other loads of the operation down with it.
LoadsAfterAbortingFailure(l) ==
  IF l.op # "get" /\ ~SourceDelivers(l.name)
    THEN [k \in {k \in BagToSet(loads) : k.op # l.op} |-> loads[k]]
    ELSE loads (-) SetToBag({l})

\* The calls still suspended after load l has returned, with a schema or
\* with an error: every other call goes on.
LoadsAfter(l) == loads (-) SetToBag({l})

LoadsFor(names, op) == SetToBag({[name |-> n, op |-> op] : n \in names})

LoadsAllowed(names) == BagCardinality(loads) + Cardinality(names) <= MaxLoads

CacheInit ==
  /\ now = 0
  /\ cache = << >>
  /\ loads = EmptyBag
  /\ sourceOk = [n \in Names |-> TRUE]
  /\ refreshInterval = FALSE
  /\ timers = 0
  /\ cacheEvent = NoCacheEvent

\* getSchema(name) up to its return or its await of loadAndCacheSchema.
GetSchema(name) ==
  /\ IF CacheHit(name)
       THEN /\ loads' = loads
            /\ cacheEvent' = [NoCacheEvent EXCEPT !.kind = "hit", !.name = name,
                                !.op = "get", !.entry = cache[name]]
       ELSE /\ LoadsAllowed({name})
            /\ loads' = loads (+) LoadsFor({name}, "get")
            /\ cacheEvent' = [NoCacheEvent EXCEPT !.kind = "miss", !.name = name,
                                !.op = "get"]
  /\ UNCHANGED <<now, cache, sourceOk, refreshInterval, timers>>
  /\ UNCHANGED <<monitorVars, response, sourceVars, serverVars>>
  /\ UNCHANGED introspection

\* Variant of loadAndCacheSchema in which a failed load evicts the entry
\* of the name.
CompleteLoadEvicting(l) ==
  /\ BagIn(l, loads)
  /\ loads' = LoadsAfter(l)
  /\ IF SourceDelivers(l.name)
       THEN /\ cache' = MapSet(cache, l.name, CachedSchemaEntry(now))
            /\ loadedFrom' = MapSet(loadedFrom, l.name, SchemaSource(l.name))
            /\ cacheEvent' = [NoCacheEvent EXCEPT !.kind = "loaded", !.name = l.name,
                                !.op = l.op, !.entry = CachedSchemaEntry(now)]
       ELSE /\ cache' = [n \in DOMAIN cache \ {l.name} |-> cache[n]]
            /\ loadedFrom' = loadedFrom
            /\ cacheEvent' = [NoCacheEvent EXCEPT !.kind = "loadFailed",
                                !.name = l.name, !.op = l.op,
                                !.raised = Raises(l.op)]
  /\ UNCHANGED <<now, sourceOk, refreshInterval, timers>>
  /\ UNCHANGED <<monitorVars, response, subgraphConfigs, serverVars>>
  /\ UNCHANGED introspection

\* Variant of loadAndCacheSchema in which a failed load renews the expiry
\* of the entry already stored for the name.
CompleteLoadExtending(l) ==
  /\ BagIn(l, loads)
  /\ loads' = LoadsAfter(l)
  /\ IF SourceDelivers(l.name)
       THEN /\ cache' = MapSet(cache, l.name, CachedSchemaEntry(now))
            /\ loadedFrom' = MapSet(loadedFrom, l.name, SchemaSource(l.name))
            /\ cacheEvent' = [NoCacheEvent EXCEPT !.kind = "loaded", !.name = l.name,
                                !.op = l.op, !.entry = CachedSchemaEntry(now)]
       ELSE /\ cache' = IF l.name \in DOMAIN cache
                          THEN [cache EXCEPT ![l.name].expiresAt = now + Ttl]
                          ELSE cache
            /\ loadedFrom' = loadedFrom
            /\ cacheEvent' = [NoCacheEvent EXCEPT !.kind = "loadFailed",
                                !.name = l.name, !.op = l.op,
                                !.raised = Raises(l.op)]
  /\ UNCHANGED <<now, sourceOk, refreshInterval, timers>>
  /\ UNCHANGED <<monitorVars, response, subgraphConfigs, serverVars>>
  /\ UNCHANGED introspection

\* loadAndCacheSchema after its await: the source has answered.  With an
\* SDL the entry is stored unconditionally; without, the error goes to the
\* caller (getSchema rethrows, warmCache and refreshAllSchemas log it).
CompleteLoad(l) ==
  /\ BagIn(l, loads)
  /\ loads' = LoadsAfter(l)
  /\ IF SourceDelivers(l.name)
       THEN /\ cache' = MapSet(cache, l.name, CachedSchemaEntry(now))
            /\ loadedFrom' = MapSet(loadedFrom, l.name, SchemaSource(l.name))
            /\ cacheEvent' = [NoCacheEvent EXCEPT !.kind = "loaded", !.name = l.name,
                                !.op = l.op, !.entry = CachedSchemaEntry(now)]
       ELSE /\ cache' = cache
            /\ loadedFrom' = loadedFrom
            /\ cacheEvent' = [NoCacheEvent EXCEPT !.kind = "loadFailed",
                                !.name = l.name, !.op = l.op,
                                !.raised = Raises(l.op)]
  /\ UNCHANGED <<now, sourceOk, refreshInterval, timers>>
  /\ UNCHANGED <<monitorVars, response, subgraphConfigs, serverVars>>
  /\ UNCHANGED introspection

\* warmCache(names) up to its await: one load per name, cached or not.
WarmCache(names) ==
  /\ names # {}
  /\ LoadsAllowed(names)
  /\ loads' = loads (+) LoadsFor(names, "warm")
  /\ cacheEvent' = [NoCacheEvent EXCEPT !.kind = "warm", !.op = "warm",
                      !.names = names]
  /\ UNCHANGED <<now, cache, sourceOk, refreshInterval, timers>>
  /\ UNCHANGED <<monitorVars, response, sourceVars, serverVars>>
  /\ UNCHANGED introspection

\* startPeriodicRefresh: throws when the interval is set; otherwise runs
\* refreshAllSchemas at once and sets the interval.
StartPeriodicRefresh ==
  /\ IF StartRejected
       THEN /\ cacheEvent' = [NoCacheEvent EXCEPT !.kind = "startFailed",
                                !.raised = TRUE]
            /\ UNCHANGED <<loads, refreshInterval, timers>>
       ELSE /\ LoadsAllowed(RefreshNames)
            /\ timers < MaxTimers
            /\ loads' = loads (+) LoadsFor(RefreshNames, "refresh")
            /\ refreshInterval' = TRUE
            /\ timers' = timers + 1
            /\ cacheEvent' = [NoCacheEvent EXCEPT !.kind = "refresh",
                                !.op = "refresh", !.names = RefreshNames]
  /\ UNCHANGED <<now, cache, sourceOk>>
  /\ UNCHANGED <<monitorVars, response, sourceVars, serverVars>>
  /\ UNCHANGED introspection

\* Variant of stopPeriodicRefresh that forgets the interval without
\* clearing it.
StopKeepsTimer ==
  /\ refreshInterval' = FALSE
  /\ timers' = timers
  /\ cacheEvent' = NoCacheEvent
  /\ UNCHANGED <<now, cache, loads, sourceOk>>
  /\ UNCHANGED <<monitorVars, response, sourceVars, serverVars>>
  /\ UNCHANGED introspection

\* stopPeriodicRefresh: clears the interval when it is set.
StopPeriodicRefresh ==
  /\ IF refreshInterval
       THEN /\ refreshInterval' = FALSE
            /\ timers' = timers - 1
       ELSE UNCHANGED <<refreshInterval, timers>>
  /\ cacheEvent' = NoCacheEvent
  /\ UNCHANGED <<now, cache, loads, sourceOk>>
  /\ UNCHANGED <<monitorVars, response, sourceVars, serverVars>>
  /\ UNCHANGED introspection

\* A live interval timer fires: refreshAllSchemas up to its await.
RefreshTick ==
  /\ timers > 0
  /\ LoadsAllowed(RefreshNames)
  /\ loads' = loads (+) LoadsFor(RefreshNames, "refresh")
  /\ cacheEvent' = [NoCacheEvent EXCEPT !.kind = "refresh", !.op = "refresh",
                      !.names = RefreshNames]
  /\ UNCHANGED <<now, cache, sourceOk, refreshInterval, timers>>
  /\ UNCHANGED <<monitorVars, response, sourceVars, serverVars>>
  /\ UNCHANGED introspection

\* Time passes.
Tick ==
  /\ now < MaxTime
  /\ now' = now + 1
  /\ cacheEvent' = NoCacheEvent
  /\ UNCHANGED <<cache, loads, sourceOk, refreshInterval, timers>>
  /\ UNCHANGED <<monitorVars, response, sourceVars, serverVars>>
  /\ UNCHANGED introspection

\* The schema source of a name starts or stops delivering.
ToggleSource(name) ==
  /\ sourceOk' = [sourceOk EXCEPT ![name] = ~sourceOk[name]]
  /\ cacheEvent' = NoCacheEvent
  /\ UNCHANGED <<now, cache, loads, refreshInterval, timers>>
  /\ UNCHANGED <<monitorVars, response, sourceVars, serverVars>>
  /\ UNCHANGED introspection

\* ---------------------------------------------------------------------
\* IntrospectionService.introspect: one call with its retry loop.

MaxDelay == 2

\* What one POST of the introspection query comes back with: the request
\* fails (network error, timeout, HTTP error status), the body has no data,
\* data has no _service, _service has no sdl, the sdl is the empty string,
\* or the sdl is a non-empty string.
IntrospectionResponses ==
  {"error", "noData", "noService", "noSdl", "emptySdl", "sdl"}

\* response.data.data._service.sdl of a response that has a _service.
SdlOf(r) ==
  IF r = "sdl" THEN "type Query" ELSE IF r = "emptySdl" THEN "" ELSE "undefined"

\* performIntrospection: axios.post rejects, the missing data throws, the
\* missing _service is a TypeError; everything else returns the sdl field.
PerformIntrospection(r) ==
  IF r \in {"error", "noData", "noService"}
    THEN [threw |-> TRUE, sdl |-> "undefined"]
    ELSE [threw |-> FALSE, sdl |-> SdlOf(r)]

NoIntrospection ==
  [pc |-> "idle", maxRetries |-> 0, retryDelayMs |-> 1, attempt |-> 0,
   responses |-> << >>, waits |-> << >>, result |-> "none",
   sdl |-> "undefined"]

\* introspect(endpoint, retryConfig) up to the await of its first attempt.
Introspect(maxRetries, retryDelayMs) ==
  /\ introspection.pc \in {"idle", "done"}
  /\ introspection' =
       LET call == [NoIntrospection EXCEPT !.maxRetries = maxRetries,
                                           !.retryDelayMs = retryDelayMs]
       IN IF call.attempt <= maxRetries
            THEN [call EXCEPT !.pc = "attempting"]
            ELSE [call EXCEPT !.pc = "done", !.result = "failure"]
  /\ UNCHANGED <<monitorVars, cacheVars, response, sourceVars, serverVars>>

\* Variant of the catch block that takes the attempt after the last one
\* for the last.
AttemptReturnsRetrying(r) ==
  /\ introspection.pc = "attempting"
  /\ introspection' =
       LET call == [introspection EXCEPT !.responses = Append(@, r)]
           attempt == PerformIntrospection(r)
       IN IF ~attempt.threw
            THEN [call EXCEPT !.pc = "done", !.result = "success",
                              !.sdl = attempt.sdl]
            ELSE IF call.attempt = call.maxRetries + 1
                   THEN [call EXCEPT !.pc = "done", !.result = "failure"]
                   ELSE [call EXCEPT !.pc = "delaying"]
  /\ UNCHANGED <<monitorVars, cacheVars, response, sourceVars, serverVars>>

\* The awaited performIntrospection settles: a return ends the call with
\* success: true and the returned sdl; a throw ends it with success: false
\* on the last attempt and goes to the delay otherwise.
AttemptReturns(r) ==
  /\ introspection.pc = "attempting"
  /\ introspection' =
       LET call == [introspection EXCEPT !.responses = Append(@, r)]
           attempt == PerformIntrospection(r)
       IN IF ~attempt.threw
            THEN [call EXCEPT !.pc = "done", !.result = "success",
                              !.sdl = attempt.sdl]
            ELSE IF call.attempt = call.maxRetries
                   THEN [call EXCEPT !.pc = "done", !.result = "failure"]
                   ELSE [call EXCEPT !.pc = "delaying"]
  /\ UNCHANGED <<monitorVars, cacheVars, response, sourceVars, serverVars>>

\* The timer of delay(retryDelayMs) fires: attempt++ and the loop test.
DelayElapsed ==
  /\ introspection.pc = "delaying"
  /\ introspection' =
       LET call == [introspection EXCEPT
                      !.attempt = @ + 1,
                      !.waits = Append(@, introspection.retryDelayMs)]
       IN IF call.attempt <= call.maxRetries
            THEN [call EXCEPT !.pc = "attempting"]
            ELSE [call EXCEPT !.pc = "done", !.result = "failure"]
  /\ UNCHANGED <<monitorVars, cacheVars, response, sourceVars, serverVars>>

\* Before server.start: no stored schema config, no listener, no stop.
NoRemembered ==
  [name |-> NoName, state |-> InitialState(NoUrl, DEFAULT_SUBGRAPH_CONFIG),
   flag |-> FALSE, decision |-> "none"]

ServerInit ==
  /\ subgraphConfigs = << >>
  /\ loadedFrom = << >>
  /\ initPc = "idle"
  /\ server = "none"
  /\ isShuttingDown = FALSE
  /\ stopPc = "none"
  /\ openRequests = 0
  /\ remembered = NoRemembered
  /\ introspection = NoIntrospection

\* ------------------------------------------------------------- actions

Init ==
  /\ states = << >>
  /\ healthCheckIntervals = {}
  /\ registry = << >>
  /\ checkInterval = FALSE
  /\ startPc = "idle"
  /\ inflight = EmptyBag
  /\ upstream \in [Urls -> BOOLEAN]
  /\ passthroughEnabled \in BOOLEAN
  /\ lastEvent = NoEvent
  /\ CacheInit
  /\ response = NoResponse
  /\ ServerInit

\* SubgraphRegistry.registerSubgraph(name, url, config), which registers
\* with the health monitor (state replaced; a timer is started unless
\* forceMock, and an earlier timer of the name is cleared only then) and
\* stores the entry under the name.
RegisterSubgraph(name, url, config) ==
  /\ states' = MapSet(states, name, InitialState(url, config))
  /\ healthCheckIntervals' =
       IF ~config.forceMock THEN healthCheckIntervals \cup {name}
                            ELSE healthCheckIntervals
  /\ registry' =
       IF name \in RegistryNames
         THEN [registry EXCEPT ![RegistryIndex(name)] = [name |-> name, url |-> url]]
         ELSE Append(registry, [name |-> name, url |-> url])
  /\ lastEvent' = NoEvent
  /\ UNCHANGED <<checkInterval, startPc, inflight, upstream, passthroughEnabled>>
  /\ UNCHANGED <<cacheVars, response, sourceVars, serverVars>>
  /\ UNCHANGED introspection

\* SubgraphRegistry.unregisterSubgraph(name): the registry entry only.
UnregisterSubgraph(name) ==
  /\ name \in RegistryNames
  /\ registry' = SelectSeq(registry, LAMBDA e : e.name # name)
  /\ lastEvent' = NoEvent
  /\ UNCHANGED <<states, healthCheckIntervals, checkInterval, startPc, inflight,
                 upstream, passthroughEnabled>>
  /\ UNCHANGED <<cacheVars, response, sourceVars, serverVars>>
  /\ UNCHANGED introspection

\* SubgraphRegistry.clearAll(): the registry entries only.
ClearAll ==
  /\ registry' = << >>
  /\ lastEvent' = NoEvent
  /\ UNCHANGED <<states, healthCheckIntervals, checkInterval, startPc, inflight,
                 upstream, passthroughEnabled>>
  /\ UNCHANGED <<cacheVars, response, sourceVars, serverVars>>
  /\ UNCHANGED introspection

\* The per-name timer fires: checkHealth(name), errors caught and logged.
TimerTick(name) ==
  /\ name \in healthCheckIntervals
  /\ LaunchAllowed({name}, FALSE)
  /\ inflight' = inflight (+) ProbesFor({name}, FALSE)
  /\ states' = StatesAfterLaunch({name})
  /\ lastEvent' = NoEvent
  /\ UNCHANGED <<healthCheckIntervals, registry, checkInterval, startPc,
                 upstream, passthroughEnabled>>
  /\ UNCHANGED <<cacheVars, response, sourceVars, serverVars>>
  /\ UNCHANGED introspection

\* SubgraphRegistry.startHealthChecks up to its await: the first round of
\* checkAllSubgraphs.  server.start is its only caller.
StartHealthChecks ==
  /\ ~checkInterval
  /\ startPc = "idle"
  /\ LaunchAllowed(RegistryNames, TRUE)
  /\ inflight' = inflight (+) ProbesFor(RegistryNames, TRUE)
  /\ states' = StatesAfterLaunch(RegistryNames)
  /\ startPc' = IF RegistryNames \subseteq DOMAIN states THEN "awaiting" ELSE "idle"
  /\ lastEvent' = NoEvent
  /\ UNCHANGED <<healthCheckIntervals, registry, checkInterval, upstream,
                 passthroughEnabled>>
  /\ UNCHANGED <<cacheVars, response, sourceVars, serverVars>>
  /\ UNCHANGED introspection

\* startHealthChecks after the await: every probe of the first round has
\* returned, the registry-wide interval is set.
StartHealthChecksDone ==
  /\ startPc = "awaiting"
  /\ \A p \in BagToSet(inflight) : ~p.init
  /\ checkInterval' = TRUE
  /\ startPc' = "idle"
  /\ lastEvent' = NoEvent
  /\ UNCHANGED <<states, healthCheckIntervals, registry, inflight, upstream,
                 passthroughEnabled>>
  /\ UNCHANGED <<cacheVars, response, sourceVars, serverVars>>
  /\ UNCHANGED introspection

\* The registry-wide interval fires: checkAllSubgraphs.
CheckAllSubgraphs ==
  /\ checkInterval
  /\ LaunchAllowed(RegistryNames, FALSE)
  /\ inflight' = inflight (+) ProbesFor(RegistryNames, FALSE)
  /\ states' = StatesAfterLaunch(RegistryNames)
  /\ lastEvent' = NoEvent
  /\ UNCHANGED <<healthCheckIntervals, registry, checkInterval, startPc,
                 upstream, passthroughEnabled>>
  /\ UNCHANGED <<cacheVars, response, sourceVars, serverVars>>
  /\ UNCHANGED introspection

\* Variant of the probe's return that creates a state for a name that has
\* none when the probe returns.
CompleteProbeRecreating(p) ==
  /\ BagIn(p, inflight)
  /\ CanApply(p.name, upstream[p.url])
  /\ inflight' = inflight (-) SetToBag({p})
  /\ states' =
       IF p.name \in DOMAIN states
         THEN [states EXCEPT ![p.name] =
                 UpdateStateFromHealthCheck(states[p.name], upstream[p.url])]
         ELSE MapSet(states, p.name,
                     UpdateStateFromHealthCheck(
                       InitialState(p.url, DEFAULT_SUBGRAPH_CONFIG), upstream[p.url]))
  /\ lastEvent' = [kind |-> "probe", name |-> p.name, url |-> p.url,
                   result |-> IF upstream[p.url] THEN "healthy" ELSE "unhealthy"]
  /\ UNCHANGED <<healthCheckIntervals, registry, checkInterval, startPc,
                 upstream, passthroughEnabled>>
  /\ UNCHANGED <<cacheVars, response, sourceVars, serverVars>>
  /\ UNCHANGED introspection

\* Variant of the probe's return in which a failed probe rejects the round:
\* the probes still in flight are dropped and the timers are cleared.
CompleteProbeAborting(p) ==
  /\ BagIn(p, inflight)
  /\ CanApply(p.name, upstream[p.url])
  /\ inflight' = IF upstream[p.url] THEN inflight (-) SetToBag({p}) ELSE EmptyBag
  /\ healthCheckIntervals' = IF upstream[p.url] THEN healthCheckIntervals ELSE {}
  /\ checkInterval' = (checkInterval /\ upstream[p.url])
  /\ states' =
       IF p.name \in DOMAIN states
         THEN [states EXCEPT ![p.name] =
                 UpdateStateFromHealthCheck(states[p.name], upstream[p.url])]
         ELSE states
  /\ lastEvent' = [kind |-> "probe", name |-> p.name, url |-> p.url,
                   result |-> IF upstream[p.url] THEN "healthy" ELSE "unhealthy"]
  /\ UNCHANGED <<registry, startPc, upstream, passthroughEnabled>>
  /\ UNCHANGED <<cacheVars, response, sourceVars, serverVars>>
  /\ UNCHANGED introspection

\* checkHealth after its await: the HTTP call for probe p returns and
\* updateStateFromHealthCheck applies the outcome to the state now
\* registered under p.name (nothing when there is none).
CompleteProbe(p) ==
  /\ BagIn(p, inflight)
  /\ CanApply(p.name, upstream[p.url])
  /\ inflight' = inflight (-) SetToBag({p})
  /\ states' =
       IF p.name \in DOMAIN states
         THEN [states EXCEPT ![p.name] =
                 UpdateStateFromHealthCheck(states[p.name], upstream[p.url])]
         ELSE states
  /\ lastEvent' = [kind |-> "probe", name |-> p.name, url |-> p.url,
                   result |-> IF upstream[p.url] THEN "healthy" ELSE "unhealthy"]
  /\ UNCHANGED <<healthCheckIntervals, registry, checkInterval, startPc,
                 upstream, passthroughEnabled>>
  /\ UNCHANGED <<cacheVars, response, sourceVars, serverVars>>
  /\ UNCHANGED introspection

\* SubgraphHealthMonitor.setHealth(name, isHealthy)
SetHealth(name, isHealthy) ==
  /\ name \in DOMAIN states
  /\ CanApply(name, isHealthy)
  /\ states' = [states EXCEPT ![name] = SetHealthState(states[name], isHealthy)]
  /\ lastEvent' = NoEvent
  /\ UNCHANGED <<healthCheckIntervals, registry, checkInterval, startPc, inflight,
                 upstream, passthroughEnabled>>
  /\ UNCHANGED <<cacheVars, response, sourceVars, serverVars>>
  /\ UNCHANGED introspection

\* Variant of shutdown that drops the states and leaves the timers running.
MonitorShutdownKeepsTimers ==
  /\ states' = << >>
  /\ lastEvent' = [kind |-> "shutdown", name |-> NoName, url |-> NoUrl,
                   result |-> "none"]
  /\ UNCHANGED <<healthCheckIntervals, registry, checkInterval, startPc,
                 inflight, upstream, passthroughEnabled>>
  /\ UNCHANGED <<cacheVars, response, sourceVars, serverVars>>
  /\ UNCHANGED introspection

\* SubgraphHealthMonitor.shutdown(): stopHealthChecks for every name that
\* has a timer, then states.clear().  Probes in flight are not cancelled.
MonitorShutdown ==
  /\ healthCheckIntervals' = {}
  /\ states' = << >>
  /\ lastEvent' = [kind |-> "shutdown", name |-> NoName, url |-> NoUrl,
                   result |-> "none"]
  /\ UNCHANGED <<registry, checkInterval, startPc, inflight, upstream,
                 passthroughEnabled>>
  /\ UNCHANGED <<cacheVars, response, sourceVars, serverVars>>
  /\ UNCHANGED introspection

\* The upstream behind a url goes up or down.
ToggleUpstream(url) ==
  /\ upstream' = [upstream EXCEPT ![url] = ~upstream[url]]
  /\ lastEvent' = NoEvent
  /\ UNCHANGED <<states, healthCheckIntervals, registry, checkInterval, startPc,
                 inflight, passthroughEnabled>>
  /\ UNCHANGED <<cacheVars, response, sourceVars, serverVars>>
  /\ UNCHANGED introspection

\* POST /:encodedUrl.  urlDecoderMiddleware rejects a request without the
\* x-subgraph-name header; the route asks the registry and dispatches.
Dispatch(name, url) ==
  IF name = NoName THEN "rejected"
  ELSE IF ShouldPassthroughToSubgraph(name, url) THEN "passthrough"
  ELSE "mock"

\* Variant of the route that probes the target url for its decision and
\* stores the outcome in the state of the subgraph.
ProxyRequestProbing(name, url) ==
  /\ lastEvent' = [kind |-> "request", name |-> name, url |-> url,
                   result |-> Dispatch(name, url)]
  /\ states' =
       IF name \in DOMAIN states /\ CanApply(name, upstream[url])
         THEN [states EXCEPT ![name] =
                 UpdateStateFromHealthCheck(states[name], upstream[url])]
         ELSE states
  /\ UNCHANGED <<healthCheckIntervals, registry, checkInterval, startPc,
                 inflight, upstream, passthroughEnabled>>
  /\ UNCHANGED <<cacheVars, response, sourceVars, serverVars>>
  /\ UNCHANGED introspection

ProxyRequest(name, url) ==
  /\ lastEvent' = [kind |-> "request", name |-> name, url |-> url,
                   result |-> Dispatch(name, url)]
  /\ UNCHANGED <<states, healthCheckIntervals, registry, checkInterval, startPc,
                 inflight, upstream, passthroughEnabled>>
  /\ UNCHANGED <<cacheVars, response, sourceVars, serverVars>>
  /\ UNCHANGED introspection

\* The route as ProxyRequest, for a registered subgraph, with the inputs the
\* decision is said to depend on and the decision kept for a later request.
RememberRequest(name, url) ==
  /\ remembered.name = NoName
  /\ name \in DOMAIN states
  /\ remembered' = [name |-> name, state |-> states[name],
                    flag |-> passthroughEnabled,
                    decision |-> Dispatch(name, url)]
  /\ lastEvent' = [kind |-> "request", name |-> name, url |-> url,
                   result |-> Dispatch(name, url)]
  /\ UNCHANGED <<states, healthCheckIntervals, registry, checkInterval, startPc,
                 inflight, upstream, passthroughEnabled>>
  /\ UNCHANGED <<cacheVars, response, sourceVars>>
  /\ UNCHANGED <<initPc, server, isShuttingDown, stopPc, openRequests>>
  /\ UNCHANGED introspection

\* ----------------------------------------------------- PassThroughHandler
\* (src/unnamed/part_006).  error is what axios.post threw when the
\* upstream did not answer: whether it is an AxiosError, its code and
\* whether it carries an HTTP response.
ConnectionCodes == {"ECONNREFUSED", "ENOTFOUND", "ECONNABORTED"}

Errors ==
  { e \in [axios : BOOLEAN, code : ConnectionCodes \cup {"OTHER"},
           response : BOOLEAN] :
      ~e.axios => (~e.response /\ e.code \in {"OTHER", "ECONNREFUSED"}) }

IsConnectionError(error) ==
  error.axios /\ (error.code \in ConnectionCodes \/ ~error.response)

ConnectionErrors == {e \in Errors : IsConnectionError(e)}

\* Variant of the error matrix that tests the missing response first.
ErrorStatusResponseFirst(error) ==
  IF ~error.axios THEN 500
  ELSE IF ~error.response THEN 502
  ELSE IF error.code = "ECONNABORTED" THEN 504
  ELSE IF error.code \in {"ECONNREFUSED", "ENOTFOUND"} THEN 503
  ELSE 500

\* The status of the GraphQL error response of handleError.
ErrorStatus(error) ==
  IF ~error.axios THEN 500
  ELSE IF error.code = "ECONNABORTED" THEN 504
  ELSE IF error.code \in {"ECONNREFUSED", "ENOTFOUND"} THEN 503
  ELSE IF ~error.response THEN 502
  ELSE 500

\* The extensions.code of the GraphQL error response of handleError.
ErrorCode(error) ==
  IF ~error.axios THEN "INTERNAL_SERVER_ERROR"
  ELSE IF error.code = "ECONNABORTED" THEN "GATEWAY_TIMEOUT"
  ELSE IF error.code \in {"ECONNREFUSED", "ENOTFOUND"} THEN "SERVICE_UNAVAILABLE"
  ELSE IF ~error.response THEN "BAD_GATEWAY"
  ELSE "INTERNAL_SERVER_ERROR"

\* schemaCache.getSchema(name) resolves: a hit, or a load that succeeds.
CacheCanSupply(name) == CacheHit(name) \/ SourceDelivers(name)

\* handleError reaches returnCachedSdl.
FallbackAttempted(error, subgraphName, isIntrospection) ==
  /\ subgraphName # NoName
  /\ isIntrospection
  /\ IsConnectionError(error)

\* returnCachedSdl is reached and succeeds.
UsesCachedSdl(error, subgraphName, isIntrospection) ==
  /\ subgraphName # NoName
  /\ isIntrospection
  /\ IsConnectionError(error)
  /\ CacheCanSupply(subgraphName)

\* Variant of handleError in which a fallback that the cache could not
\* serve leaves its own answer.
HandleErrorFallbackAnswers(error, subgraphName, isIntrospection) ==
  IF UsesCachedSdl(error, subgraphName, isIntrospection)
    THEN [status |-> 200, code |-> "none",
          mode |-> "passthrough-introspection-cached",
          cacheFallback |-> TRUE, attempted |-> TRUE, written |-> 1]
  ELSE IF FallbackAttempted(error, subgraphName, isIntrospection)
    THEN [status |-> 404, code |-> "SCHEMA_NOT_FOUND", mode |-> "none",
          cacheFallback |-> FALSE, attempted |-> TRUE, written |-> 2]
  ELSE [status |-> ErrorStatus(error), code |-> ErrorCode(error),
        mode |-> "none", cacheFallback |-> FALSE, attempted |-> FALSE,
        written |-> 1]

\* handleError(error, targetUrl, res, req, subgraphName): the answer, and
\* the number of responses written (returnCachedSdl writes only after
\* getSchema and printSchema have returned; sendErrorResponse writes once).
HandleError(error, subgraphName, isIntrospection) ==
  LET attempted == FallbackAttempted(error, subgraphName, isIntrospection)
      success == attempted /\ CacheCanSupply(subgraphName)
  IN IF success
       THEN [status |-> 200, code |-> "none",
             mode |-> "passthrough-introspection-cached",
             cacheFallback |-> TRUE, attempted |-> TRUE, written |-> 1]
       ELSE [status |-> ErrorStatus(error), code |-> ErrorCode(error),
             mode |-> "none", cacheFallback |-> FALSE,
             attempted |-> attempted, written |-> 1]

\* handleRequest(req, res, targetUrl, timeout, subgraphName): the answer of
\* the upstream is forwarded, an error goes to handleError.
HandleRequest(targetUrl, subgraphName, isIntrospection, error) ==
  IF upstream[targetUrl]
    THEN [status |-> 200, code |-> "none", mode |-> "passthrough",
          cacheFallback |-> FALSE, attempted |-> FALSE, written |-> 1]
    ELSE HandleError(error, subgraphName, isIntrospection)

\* The subgraphName argument of the route's call of handleRequest: the
\* route calls handleRequest(req, res, targetUrl) and passes none.
RouteSubgraphNameArg(name) == NoName

\* What a call handleRequest(req, res, url, timeout, arg) leaves behind for
\* a request of subgraph name: the response, and the entry that the
\* getSchema of the fallback stores when it had to load.
HandlerStep(kind, name, arg, url, isIntrospection, error) ==
  LET answer == HandleRequest(url, arg, isIntrospection, error)
      loaded == /\ ~upstream[url]
                /\ UsesCachedSdl(error, arg, isIntrospection)
                /\ ~CacheHit(arg)
  IN /\ response' =
          [kind |-> kind, name |-> name, url |-> url,
           introspection |-> isIntrospection,
           error |-> IF upstream[url] THEN NoError ELSE error,
           cacheCanSupply |-> CacheCanSupply(name),
           status |-> answer.status, code |-> answer.code,
           mode |-> answer.mode, cacheFallback |-> answer.cacheFallback,
           attempted |-> answer.attempted, written |-> answer.written]
     /\ cache' = IF loaded THEN MapSet(cache, arg, CachedSchemaEntry(now))
                           ELSE cache
     /\ loadedFrom' = IF loaded THEN MapSet(loadedFrom, arg, SchemaSource(arg))
                                ELSE loadedFrom

\* POST /:encodedUrl for a request that the registry sends to passthrough.
PassThroughRequest(name, url, isIntrospection, error) ==
  /\ Dispatch(name, url) = "passthrough"
  /\ HandlerStep("passthrough", name, RouteSubgraphNameArg(name), url,
                 isIntrospection, error)
  /\ lastEvent' = [kind |-> "request", name |-> name, url |-> url,
                   result |-> "passthrough"]
  /\ cacheEvent' = NoCacheEvent
  /\ UNCHANGED <<states, healthCheckIntervals, registry, checkInterval, startPc,
                 inflight, upstream, passthroughEnabled>>
  /\ UNCHANGED <<now, loads, sourceOk, refreshInterval, timers>>
  /\ UNCHANGED <<subgraphConfigs, serverVars>>
  /\ UNCHANGED introspection

\* A caller other than the route hands the subgraph name to
\* handleRequest(req, res, targetUrl, timeout, subgraphName).
HandleRequestCall(name, url, isIntrospection, error) ==
  /\ HandlerStep("handler", name, name, url, isIntrospection, error)
  /\ lastEvent' = NoEvent
  /\ cacheEvent' = NoCacheEvent
  /\ UNCHANGED <<states, healthCheckIntervals, registry, checkInterval, startPc,
                 inflight, upstream, passthroughEnabled>>
  /\ UNCHANGED <<now, loads, sourceOk, refreshInterval, timers>>
  /\ UNCHANGED <<subgraphConfigs, serverVars>>
  /\ UNCHANGED introspection

\* ------------------------------------------------------------ MockHandler
\* (src/src/handlers/MockHandler.ts).  The body of the request is reduced to
\* what handleRequest tests of its query; generation is the outcome of
\* mockGenerator for an operation, "ok" or the class handleError finds.
QueryKinds == {"missing", "notString", "introspection", "operation"}

GenerationErrors ==
  {"GRAPHQL_PARSE_ERROR", "GRAPHQL_VALIDATION_ERROR", "SCHEMA_ERROR",
   "MOCK_GENERATION_ERROR"}

Generations == {"ok"} \cup GenerationErrors

\* MockHandler.handleError: the status that goes with the error code.
GenerationStatus(code) ==
  IF code \in {"GRAPHQL_PARSE_ERROR", "GRAPHQL_VALIDATION_ERROR"} THEN 400
                                                                  ELSE 500

\* Variant of getSchemaOrError that reports a failed getSchema as a
\* generation error.
MockAnswerNoSchemaAs500(name, query, generation) ==
  IF query \in {"missing", "notString"}
    THEN [status |-> 400, code |-> "BAD_REQUEST", mode |-> "none"]
  ELSE IF ~CacheCanSupply(name)
    THEN [status |-> 500, code |-> "MOCK_GENERATION_ERROR", mode |-> "none"]
  ELSE [status |-> 200, code |-> "none", mode |-> "mock"]

\* MockHandler.handleRequest(req, res, subgraphName): the query is
\* validated, then getSchemaOrError, then introspection or generation.
MockAnswer(name, query, generation) ==
  IF query \in {"missing", "notString"}
    THEN [status |-> 400, code |-> "BAD_REQUEST", mode |-> "none"]
  ELSE IF ~CacheCanSupply(name)
    THEN [status |-> 404, code |-> "SCHEMA_NOT_FOUND", mode |-> "none"]
  ELSE IF query = "introspection"
    THEN [status |-> 200, code |-> "none", mode |-> "mock-introspection"]
  ELSE IF generation = "ok"
    THEN [status |-> 200, code |-> "none", mode |-> "mock"]
  ELSE [status |-> GenerationStatus(generation), code |-> generation,
        mode |-> "none"]

\* POST /:encodedUrl for a request that the route hands to the mock handler.
\* The getSchema of the handler stores an entry when it had to load.
MockRequest(name, url, query, generation) ==
  /\ Dispatch(name, url) = "mock"
  /\ query = "operation" \/ generation = "ok"
  /\ LET answer == MockAnswer(name, query, generation)
         asked == query \in {"introspection", "operation"}
         loaded == asked /\ ~CacheHit(name) /\ SourceDelivers(name)
     IN /\ response' =
             [kind |-> "mock", name |-> name, url |-> url,
              introspection |-> query = "introspection",
              error |-> NoError,
              cacheCanSupply |-> CacheCanSupply(name),
              status |-> answer.status, code |-> answer.code,
              mode |-> answer.mode, cacheFallback |-> FALSE,
              attempted |-> asked, written |-> 1]
        /\ cache' = IF loaded THEN MapSet(cache, name, CachedSchemaEntry(now))
                              ELSE cache
        /\ loadedFrom' =
             IF loaded THEN MapSet(loadedFrom, name, SchemaSource(name))
                       ELSE loadedFrom
  /\ lastEvent' = [kind |-> "request", name |-> name, url |-> url,
                   result |-> "mock"]
  /\ cacheEvent' = NoCacheEvent
  /\ UNCHANGED <<states, healthCheckIntervals, registry, checkInterval, startPc,
                 inflight, upstream, passthroughEnabled>>
  /\ UNCHANGED <<now, loads, sourceOk, refreshInterval, timers>>
  /\ UNCHANGED <<subgraphConfigs, serverVars>>
  /\ UNCHANGED introspection

\* ------------------------------------------- SubgraphInitializer, server
\* (src/src/services/SubgraphInitializer.ts, src/src/server.ts).  The
\* registry lists one subgraph, "a" at "u1"; the local configuration file
\* overrides it or is empty.
MaxOpen == 2

\* An entry of the local configuration: url, health config, schema source.
LocalOverrides ==
  [url : OptUrls,
   config : {DEFAULT_SUBGRAPH_CONFIG,
             [forceMock |-> TRUE, disableMocking |-> FALSE,
              maxRetries |-> MaxRetriesBound]},
   schemaFile : BOOLEAN, useLocalSchema : BOOLEAN]

\* localConfig.subgraphs: no entry, or one for "a".
LocalConfigs == {<< >>} \cup {[n \in {"a"} |-> o] : o \in LocalOverrides}

\* mergeAndRegister up to its await: the subgraph of the registry is
\* registered with the default config, stored as such in the SchemaCache,
\* and warmCache starts a load of its name.
InitRegisterApollo ==
  /\ initPc = "idle"
  /\ LoadsAllowed({"a"})
  /\ states' = MapSet(states, "a", InitialState("u1", DEFAULT_SUBGRAPH_CONFIG))
  /\ healthCheckIntervals' = healthCheckIntervals \cup {"a"}
  /\ registry' = Append(registry, [name |-> "a", url |-> "u1"])
  /\ subgraphConfigs' = MapSet(subgraphConfigs, "a", DefaultSchemaConfig("u1"))
  /\ loads' = loads (+) LoadsFor({"a"}, "warm")
  /\ cacheEvent' = [NoCacheEvent EXCEPT !.kind = "warm", !.op = "warm",
                      !.names = {"a"}]
  /\ initPc' = "warming"
  /\ lastEvent' = NoEvent
  /\ UNCHANGED <<checkInterval, startPc, inflight, upstream, passthroughEnabled>>
  /\ UNCHANGED <<now, cache, sourceOk, refreshInterval, timers>>
  /\ UNCHANGED <<response, loadedFrom, server, isShuttingDown, stopPc,
                 openRequests, remembered>>
  /\ UNCHANGED introspection

\* mergeAndRegister after its await of warmCache: every override of the
\* local configuration is applied (unregister, register with the local
\* config, setSubgraphConfig), and initialize returns.
InitApplyOverrides(local) ==
  /\ initPc = "warming"
  /\ \A l \in BagToSet(loads) : l.op # "warm"
  /\ initPc' = "done"
  /\ IF "a" \in DOMAIN local
       THEN LET o == local["a"]
            IN /\ states' = MapSet(states, "a", InitialState(o.url, o.config))
               /\ healthCheckIntervals' =
                    IF ~o.config.forceMock THEN healthCheckIntervals \cup {"a"}
                                           ELSE healthCheckIntervals
               /\ registry' =
                    Append(SelectSeq(registry, LAMBDA e : e.name # "a"),
                           [name |-> "a", url |-> o.url])
               /\ subgraphConfigs' =
                    MapSet(subgraphConfigs, "a",
                           [url |-> o.url, schemaFile |-> o.schemaFile,
                            useLocalSchema |-> o.useLocalSchema])
       ELSE UNCHANGED <<states, healthCheckIntervals, registry, subgraphConfigs>>
  /\ lastEvent' = NoEvent
  /\ cacheEvent' = NoCacheEvent
  /\ UNCHANGED <<checkInterval, startPc, inflight, upstream, passthroughEnabled>>
  /\ UNCHANGED <<now, cache, loads, sourceOk, refreshInterval, timers>>
  /\ UNCHANGED <<response, loadedFrom, server, isShuttingDown, stopPc,
                 openRequests, remembered>>
  /\ UNCHANGED introspection

\* server.start after startPeriodicRefresh: app.listen.
ServerListen ==
  /\ server = "none"
  /\ refreshInterval
  /\ ~isShuttingDown
  /\ server' = "listening"
  /\ UNCHANGED <<monitorVars, cacheVars, response, sourceVars>>
  /\ UNCHANGED <<initPc, isShuttingDown, stopPc, openRequests, remembered>>
  /\ UNCHANGED introspection

\* The listener accepts a request; a listener that was closed accepts none.
AcceptRequest ==
  /\ server = "listening"
  /\ openRequests < MaxOpen
  /\ openRequests' = openRequests + 1
  /\ UNCHANGED <<monitorVars, cacheVars, response, sourceVars>>
  /\ UNCHANGED <<initPc, server, isShuttingDown, stopPc, remembered>>
  /\ UNCHANGED introspection

\* A request that the listener accepted is answered.
FinishRequest ==
  /\ openRequests > 0
  /\ openRequests' = openRequests - 1
  /\ UNCHANGED <<monitorVars, cacheVars, response, sourceVars>>
  /\ UNCHANGED <<initPc, server, isShuttingDown, stopPc, remembered>>
  /\ UNCHANGED introspection

\* server.stop(timeout) up to the return of its promise: a second call
\* returns at once; the first stops the registry-wide check timer and the
\* schema refresher, resolves when there is no listener, and otherwise
\* arms the shutdown timer and calls server.close.
ServerStop ==
  /\ server \in {"listening", "closing"}
  /\ IF isShuttingDown
       THEN UNCHANGED <<checkInterval, refreshInterval, timers, server,
                        isShuttingDown, stopPc>>
       ELSE /\ isShuttingDown' = TRUE
            /\ checkInterval' = FALSE
            /\ refreshInterval' = FALSE
            /\ timers' = IF refreshInterval THEN timers - 1 ELSE timers
            /\ server' = "closing"
            /\ stopPc' = "waiting"
  /\ cacheEvent' = NoCacheEvent
  /\ lastEvent' = NoEvent
  /\ UNCHANGED <<states, healthCheckIntervals, registry, startPc, inflight,
                 upstream, passthroughEnabled>>
  /\ UNCHANGED <<now, cache, loads, sourceOk>>
  /\ UNCHANGED <<response, sourceVars, initPc, openRequests, remembered>>
  /\ UNCHANGED introspection

\* The callback of server.close: every accepted request is answered, the
\* shutdown timer is cleared, server = null, the promise resolves (which
\* does nothing to a promise that the timer has rejected).
ServerClosed ==
  /\ server = "closing"
  /\ openRequests = 0
  /\ server' = "none"
  /\ stopPc' = IF stopPc = "waiting" THEN "resolved" ELSE stopPc
  /\ UNCHANGED <<monitorVars, cacheVars, response, sourceVars>>
  /\ UNCHANGED <<initPc, isShuttingDown, openRequests, remembered>>
  /\ UNCHANGED introspection

\* The shutdown timer fires while requests are open: the promise of stop
\* is rejected with 'Shutdown timeout'.
ShutdownTimeout ==
  /\ stopPc = "waiting"
  /\ server = "closing"
  /\ openRequests > 0
  /\ stopPc' = "rejected"
  /\ UNCHANGED <<monitorVars, cacheVars, response, sourceVars>>
  /\ UNCHANGED <<initPc, server, isShuttingDown, openRequests, remembered>>
  /\ UNCHANGED introspection

\* The health monitor and the registry's background checks around one
\* subgraph that is registered and re-registered with any url and config.
Next ==
  \/ \E u \in OptUrls, c \in SubgraphConfigItem : RegisterSubgraph("a", u, c)
  \/ UnregisterSubgraph("a")
  \/ TimerTick("a")
  \/ StartHealthChecks
  \/ StartHealthChecksDone
  \/ CheckAllSubgraphs
  \/ \E p \in BagToSet(inflight) : CompleteProbe(p)
  \/ \E b \in BOOLEAN : SetHealth("a", b)
  \/ \E u \in Urls : ToggleUpstream(u)
  \/ \E u \in Urls : ProxyRequest("a", u)
  \/ MonitorShutdown
  \/ ClearAll

Spec == Init /\ [][Next]_vars

\* The proxy while it serves requests, after server.start has started the
\* registry-wide checks: two subgraphs behind the same url, "a" with any
\* config and "b" as discovered from the registry (default config).
\* Requests name either subgraph and target that url or another one.
InitRouting ==
  /\ states = << >>
  /\ healthCheckIntervals = {}
  /\ registry = << >>
  /\ checkInterval = TRUE
  /\ startPc = "idle"
  /\ inflight = EmptyBag
  /\ upstream \in [Urls -> BOOLEAN]
  /\ passthroughEnabled \in BOOLEAN
  /\ lastEvent = NoEvent
  /\ CacheInit
  /\ response = NoResponse
  /\ ServerInit

NextRouting ==
  \/ \E c \in SubgraphConfigItem : RegisterSubgraph("a", "u1", c)
  \/ RegisterSubgraph("b", "u1", DEFAULT_SUBGRAPH_CONFIG)
  \/ \E n \in Names : UnregisterSubgraph(n)
  \/ \E n \in Names : TimerTick(n)
  \/ CheckAllSubgraphs
  \/ \E p \in BagToSet(inflight) : CompleteProbe(p)
  \/ \E n \in Names, b \in BOOLEAN : SetHealth(n, b)
  \/ \E u \in Urls : ToggleUpstream(u)
  \/ \E n \in Names, u \in Urls : ProxyRequest(n, u)

SpecRouting == InitRouting /\ [][NextRouting]_vars

\* The SchemaCache alone: reads, warm-up, the periodic refresher, the clock
\* and the schema sources of two names.
InitCache ==
  /\ states = << >>
  /\ healthCheckIntervals = {}
  /\ registry = << >>
  /\ checkInterval = FALSE
  /\ startPc = "idle"
  /\ inflight = EmptyBag
  /\ upstream = [u \in Urls |-> TRUE]
  /\ passthroughEnabled = TRUE
  /\ lastEvent = NoEvent
  /\ CacheInit
  /\ response = NoResponse
  /\ ServerInit

NextCache ==
  \/ \E n \in Names : GetSchema(n)
  \/ \E l \in BagToSet(loads) : CompleteLoad(l)
  \/ \E S \in SUBSET Names : WarmCache(S)
  \/ StartPeriodicRefresh
  \/ StopPeriodicRefresh
  \/ RefreshTick
  \/ Tick
  \/ \E n \in Names : ToggleSource(n)

SpecCache == InitCache /\ [][NextCache]_vars

\* The proxy route in front of one subgraph "a" at "u1" whose schema is
\* warmed into the cache: probes decide the routing, forwarded requests
\* meet an upstream that may be down.
NextProxy ==
  \/ \E c \in SubgraphConfigItem : RegisterSubgraph("a", "u1", c)
  \/ TimerTick("a")
  \/ \E p \in BagToSet(inflight) : CompleteProbe(p)
  \/ ToggleUpstream("u1")
  \/ WarmCache({"a"})
  \/ \E l \in BagToSet(loads) : CompleteLoad(l)
  \/ ToggleSource("a")
  \/ \E q \in BOOLEAN, e \in Errors : PassThroughRequest("a", "u1", q, e)

SpecProxy == InitCache /\ [][NextProxy]_vars

\* Recovery of one subgraph "a" at "u1" that is never forced to mock.  The
\* interval timer of a registered subgraph keeps firing and every probe
\* returns (axios timeout), hence the weak fairness of both.
ProbeRecords == [name : Names, url : Urls, init : BOOLEAN]

NextRecovery ==
  \/ \E c \in {k \in SubgraphConfigItem : ~k.forceMock} : RegisterSubgraph("a", "u1", c)
  \/ TimerTick("a")
  \/ \E p \in BagToSet(inflight) : CompleteProbe(p)
  \/ ToggleUpstream("u1")
  \/ ProxyRequest("a", "u1")

SpecRecovery ==
  /\ Init
  /\ [][NextRecovery]_vars
  /\ WF_vars(TimerTick("a"))
  /\ WF_vars(\E p \in ProbeRecords : CompleteProbe(p))

\* server.start and server.stop around one subgraph: initialization with
\* the warm-up and the local overrides, the first round of checks, the
\* refresher, the listener, the timers that fire while it serves, and
\* stop with requests that may still be open.  stop is called after start
\* has returned.
NextServer ==
  \/ InitRegisterApollo
  \/ \E l \in BagToSet(loads) : CompleteLoad(l)
  \/ \E local \in LocalConfigs : InitApplyOverrides(local)
  \/ (initPc = "done" /\ server = "none" /\ ~isShuttingDown /\ StartHealthChecks)
  \/ StartHealthChecksDone
  \/ (checkInterval /\ server = "none" /\ ~refreshInterval /\ StartPeriodicRefresh)
  \/ ServerListen
  \/ TimerTick("a")
  \/ CheckAllSubgraphs
  \/ \E p \in BagToSet(inflight) : CompleteProbe(p)
  \/ RefreshTick
  \/ ToggleUpstream("u1")
  \/ ToggleSource("a")
  \/ AcceptRequest
  \/ FinishRequest
  \/ ServerStop
  \/ ServerClosed
  \/ ShutdownTimeout

SpecServer == InitCache /\ [][NextServer]_vars

\* The two handlers behind the route for one subgraph "a" at "u1": probes
\* decide the dispatch, the schema source and the upstream come and go, and
\* handleRequest of the PassThroughHandler is also called with the name.
NextHandlers ==
  \/ \E c \in SubgraphConfigItem : RegisterSubgraph("a", "u1", c)
  \/ TimerTick("a")
  \/ \E p \in BagToSet(inflight) : CompleteProbe(p)
  \/ ToggleUpstream("u1")
  \/ ToggleSource("a")
  \/ \E q \in BOOLEAN, e \in Errors : PassThroughRequest("a", "u1", q, e)
  \/ \E q \in BOOLEAN, e \in Errors : HandleRequestCall("a", "u1", q, e)
  \/ \E n \in Names, q \in QueryKinds, g \in Generations :
       MockRequest(n, "u1", q, g)

SpecHandlers == InitCache /\ [][NextHandlers]_vars

\* Two subgraphs behind the same url, probed by their own timers, and
\* requests of which one is kept for comparison with the later ones.
NextDecision ==
  \/ \E c \in {k \in SubgraphConfigItem : ~k.forceMock /\ ~k.disableMocking} :
       RegisterSubgraph("a", "u1", c)
  \/ RegisterSubgraph("b", "u1", DEFAULT_SUBGRAPH_CONFIG)
  \/ \E n \in Names : TimerTick(n)
  \/ \E p \in BagToSet(inflight) : CompleteProbe(p)
  \/ ToggleUpstream("u1")
  \/ \E n \in Names : RememberRequest(n, "u1")
  \/ \E n \in Names : ProxyRequest(n, "u1")

SpecDecision == InitRouting /\ [][NextDecision]_vars

\* The background probing of two subgraphs registered with the default
\* config behind urls that go up and down: the per-subgraph timers, the
\* rounds of the registry-wide timer and the probes that return.
NextProbing ==
  \/ \E n \in Names, u \in Urls : RegisterSubgraph(n, u, DEFAULT_SUBGRAPH_CONFIG)
  \/ \E n \in Names : TimerTick(n)
  \/ CheckAllSubgraphs
  \/ \E p \in BagToSet(inflight) : CompleteProbe(p)
  \/ \E u \in Urls : ToggleUpstream(u)

SpecProbing == InitRouting /\ [][NextProbing]_vars

\* Everything that runs next to the health monitor of one subgraph "a":
\* registrations with or without url, probes and setHealth on one side,
\* proxy requests through both handlers and the operations of the
\* SchemaCache on the other.
FrameErrors ==
  {[axios |-> TRUE, code |-> "ECONNREFUSED", response |-> FALSE],
   [axios |-> FALSE, code |-> "OTHER", response |-> FALSE]}

NextFrame ==
  \/ \E u \in {"u1", NoUrl} : RegisterSubgraph("a", u, DEFAULT_SUBGRAPH_CONFIG)
  \/ TimerTick("a")
  \/ \E p \in BagToSet(inflight) : CompleteProbe(p)
  \/ \E b \in BOOLEAN : SetHealth("a", b)
  \/ ToggleUpstream("u1")
  \/ ProxyRequest("a", "u1")
  \/ \E e \in FrameErrors : PassThroughRequest("a", "u1", FALSE, e)
  \/ MockRequest("a", "u1", "operation", "ok")
  \/ GetSchema("a")
  \/ WarmCache({"a"})
  \/ \E l \in BagToSet(loads) : CompleteLoad(l)
  \/ ToggleSource("a")

SpecFrame == InitCache /\ [][NextFrame]_vars

\* One introspect call after the other against an endpoint that answers
\* each attempt in any of the ways above.  Every attempt settles (the
\* request carries INTROSPECTION_TIMEOUT_MS) and every delay timer fires,
\* hence the weak fairness of both.
NextIntrospection ==
  \/ \E m \in 0..MaxRetriesBound : \E d \in 1..MaxDelay : Introspect(m, d)
  \/ \E r \in IntrospectionResponses : AttemptReturns(r)
  \/ DelayElapsed

SpecIntrospection ==
  /\ InitCache
  /\ [][NextIntrospection]_vars
  /\ WF_vars(\E r \in IntrospectionResponses : AttemptReturns(r))
  /\ WF_vars(DelayElapsed)

\* ------------------------------------------------------------- claims

\* The subgraph a proxy request or a returned probe was about.
EventState == states[lastEvent.name]
IsRequest == lastEvent.kind = "request"
IsProbe == lastEvent.kind = "probe"

\* C1 (as stated): in every reachable state a subgraph that is mocking has
\* forceMock, or has mocking enabled and at least maxRetries consecutive
\* failures.
C1_MockingOnlyByForceOrFailures ==
  \A n \in DOMAIN states :
    states[n].isMocking =>
      \/ states[n].config.forceMock
      \/ /\ ~states[n].config.disableMocking
         /\ states[n].consecutiveFailures >= states[n].config.maxRetries

\* C1 (amended): in every reachable state a subgraph that is mocking has
\* forceMock, or has no url, or has mocking enabled and at least maxRetries
\* consecutive failures.
C1_MockingOnlyByForceNoUrlOrFailures ==
  \A n \in DOMAIN states :
    states[n].isMocking =>
      \/ states[n].config.forceMock
      \/ states[n].url = NoUrl
      \/ /\ ~states[n].config.disableMocking
         /\ states[n].consecutiveFailures >= states[n].config.maxRetries

\* C1 witness: a subgraph with a url and without forceMock mocks after its
\* failures reached a positive maxRetries.
C1_Witness ==
  \E n \in DOMAIN states :
    /\ states[n].isMocking
    /\ ~states[n].config.forceMock
    /\ states[n].url # NoUrl
    /\ states[n].config.maxRetries > 0
    /\ states[n].consecutiveFailures >= states[n].config.maxRetries

\* C2: a proxy request for a subgraph whose config has forceMock is
\* dispatched to the Mock Engine, never to the upstream.
C2_ForceMockNeverForwarded ==
  (IsRequest /\ lastEvent.name \in DOMAIN states
     /\ EventState.config.forceMock)
    => lastEvent.result = "mock"

\* C2 witness: passthrough is enabled, the forceMock subgraph was probed
\* healthy and its upstream is up, and the request is mocked.
C2_Witness ==
  /\ IsRequest
  /\ lastEvent.name \in DOMAIN states
  /\ lastEvent.name \in RegistryNames
  /\ EventState.config.forceMock
  /\ EventState.isHealthy
  /\ EventState.url # NoUrl
  /\ passthroughEnabled
  /\ upstream[lastEvent.url]
  /\ lastEvent.result = "mock"

\* C3: with global passthrough enabled, a proxy request for a registered
\* subgraph whose config has disableMocking is passed through, whatever
\* its health.
C3_DisableMockingAlwaysPassthrough ==
  (IsRequest /\ passthroughEnabled
     /\ lastEvent.name \in RegistryNames
     /\ lastEvent.name \in DOMAIN states
     /\ EventState.config.disableMocking
     /\ EventState.url # NoUrl)
    => lastEvent.result = "passthrough"

\* C4: a subgraph registered with forceMock has isMocking = true and
\* status = mocking in every state from its registration on.
C4_ForceMockStatusMocking ==
  \A n \in DOMAIN states :
    states[n].config.forceMock =>
      (states[n].isMocking /\ states[n].status = "mocking")

\* C5: while the current registration of a subgraph has forceMock, it has
\* no probe timer and no step of the background checks sends it a probe.
C5_NoProbeForForceMock ==
  [][\A n \in DOMAIN states :
       states[n].config.forceMock =>
         /\ n \notin healthCheckIntervals
         /\ \A u \in Urls, i \in BOOLEAN :
              CopiesIn([name |-> n, url |-> u, init |-> i], inflight')
                <= CopiesIn([name |-> n, url |-> u, init |-> i], inflight)]_vars

C7_SuccessfulProbeResets ==
  (IsProbe /\ lastEvent.result = "healthy" /\ lastEvent.name \in DOMAIN states)
    => /\ EventState.consecutiveFailures = 0
       /\ EventState.status = "available"
       /\ EventState.isHealthy
       /\ EventState.isMocking = EventState.config.forceMock

\* C7 witness: a probe succeeded for a subgraph that was mocking after
\* failures; it no longer mocks.
C7_Witness ==
  /\ IsProbe
  /\ lastEvent.result = "healthy"
  /\ lastEvent.name \in DOMAIN states
  /\ ~EventState.config.forceMock
  /\ EventState.status = "available"
  /\ ~EventState.isMocking

\* C8: in every reachable state a subgraph whose status is mocking has
\* isHealthy = false.
C8_MockingIsUnhealthy ==
  \A n \in DOMAIN states :
    states[n].status = "mocking" => ~states[n].isHealthy

\* C8 witness: a subgraph reached the mocking status.
C8_Witness ==
  \E n \in DOMAIN states :
    states[n].status = "mocking" /\ states[n].consecutiveFailures > 0

\* First registry entry with the same url as the entry of `name`.
FirstWithUrlOf(name) ==
  LET u == registry[RegistryIndex(name)].url
      same == {i \in 1..Len(registry) : registry[i].url = u}
  IN registry[CHOOSE i \in same : \A j \in same : i <= j].name

\* C9 (as stated): a request for a registered subgraph S with target url U
\* is passed through exactly when passthrough is enabled, S is not mocking
\* and either a live probe of U succeeds or the cached isHealthy of S is
\* true.
C9_LiveProbeOrCachedHealth ==
  (IsRequest /\ lastEvent.name \in RegistryNames /\ lastEvent.name \in DOMAIN states)
    => ((lastEvent.result = "passthrough") <=>
          (/\ passthroughEnabled
           /\ ~EventState.isMocking
           /\ (upstream[lastEvent.url] \/ EventState.isHealthy)))

\* C9 (amended): a request for a registered subgraph S is passed through
\* exactly when passthrough is enabled, S is not mocking and the cached
\* isHealthy of the first registered subgraph with the url of S is true; no
\* live probe enters the decision.
C9_CachedHealthOnly ==
  (IsRequest /\ lastEvent.name \in RegistryNames /\ lastEvent.name \in DOMAIN states)
    => ((lastEvent.result = "passthrough") <=>
          (/\ passthroughEnabled
           /\ ~EventState.isMocking
           /\ FirstWithUrlOf(lastEvent.name) \in DOMAIN states
           /\ states[FirstWithUrlOf(lastEvent.name)].isHealthy))

\* C9 witness: a request is passed through on the cached health while the
\* upstream behind its target url is down.
C9_Witness ==
  /\ IsRequest
  /\ lastEvent.name \in RegistryNames
  /\ lastEvent.name \in DOMAIN states
  /\ lastEvent.result = "passthrough"
  /\ EventState.isHealthy
  /\ ~upstream[lastEvent.url]

\* What the route would answer if it decided with the state of subgraph n.
DispatchWithStateOf(n) ==
  IF /\ passthroughEnabled
     /\ n \in DOMAIN states
     /\ ~states[n].isMocking
     /\ states[n].isHealthy
    THEN "passthrough" ELSE "mock"

\* C10 (as stated): when the name of the request is not registered but its
\* target url is the url of a registered subgraph, the decision is made
\* with the state of that subgraph.
C10_UrlFallbackForUnknownName ==
  (IsRequest /\ lastEvent.name \notin RegistryNames
     /\ GetSubgraphByUrl(lastEvent.url) # 0)
    => lastEvent.result =
         DispatchWithStateOf(registry[GetSubgraphByUrl(lastEvent.url)].name)

\* C10 (amended): when the name of the request is not registered the
\* subgraph is treated as unknown and the request is not passed through,
\* also when its target url is the url of a registered subgraph.
C10_UnknownNameNeverPassthrough ==
  (IsRequest /\ lastEvent.name \notin RegistryNames)
    => lastEvent.result = "mock"

\* C10 witness: the name is not registered, the target url belongs to a
\* registered healthy subgraph that is not mocking, passthrough is enabled,
\* and the request is mocked.
C10_Witness ==
  /\ IsRequest
  /\ lastEvent.name \notin RegistryNames
  /\ passthroughEnabled
  /\ \E i \in 1..Len(registry) :
       /\ registry[i].url = lastEvent.url
       /\ registry[i].name \in DOMAIN states
       /\ states[registry[i].name].isHealthy
       /\ ~states[registry[i].name].isMocking
  /\ lastEvent.result = "mock"

\* C11: a forwarded request that carries the federation introspection query
\* and meets a connection-class failure of the upstream, while the
\* SchemaCache can supply the schema of the subgraph, is answered 200 with
\* X-Proxy-Mode: passthrough-introspection-cached and X-Cache-Fallback: true.
C11_IntrospectionFallbackServed ==
  (/\ response.kind = "passthrough"
   /\ response.introspection
   /\ IsConnectionError(response.error)
   /\ response.cacheCanSupply)
  => /\ response.status = 200
     /\ response.mode = "passthrough-introspection-cached"
     /\ response.cacheFallback

\* C12: at any time at most one probe of a given subgraph is in flight.
ProbesInFlightOf(name) ==
  BagCardinality([p \in {q \in BagToSet(inflight) : q.name = name} |-> inflight[p]])

C12_AtMostOneProbePerSubgraph ==
  \A n \in Names : ProbesInFlightOf(n) <= 1

\* C13: from every subgraph state and for every outcome b, setHealth(name, b)
\* leaves the same status, isHealthy, isMocking and consecutiveFailures as a
\* probe that returns with outcome b.
SameTransition(s, t) ==
  /\ s.status = t.status
  /\ s.isHealthy = t.isHealthy
  /\ s.isMocking = t.isMocking
  /\ s.consecutiveFailures = t.consecutiveFailures

C13_SetHealthFollowsProbeRules ==
  \A n \in DOMAIN states, b \in BOOLEAN :
    SameTransition(SetHealthState(states[n], b),
                   UpdateStateFromHealthCheck(states[n], b))

\* C14: if a subgraph that is not forced to mock is in the mocking state and
\* its upstream becomes healthy and stays healthy, then eventually a probe
\* has succeeded, mocking has stopped (isMocking false, consecutiveFailures
\* 0) and a request for it is passed through again.
MockingByFailures ==
  /\ "a" \in DOMAIN states
  /\ states["a"].url = "u1"
  /\ ~states["a"].config.forceMock
  /\ states["a"].isMocking

Recovered ==
  /\ "a" \in DOMAIN states
  /\ states["a"].status = "available"
  /\ states["a"].isHealthy
  /\ ~states["a"].isMocking
  /\ states["a"].consecutiveFailures = 0
  /\ passthroughEnabled => Dispatch("a", "u1") = "passthrough"

C14_MockingRecoversWhenUpstreamHealthy ==
  (<>[]upstream["u1"]) => [](MockingByFailures => <>Recovered)

C14_Witness ==
  /\ MockingByFailures
  /\ states["a"].consecutiveFailures >= states["a"].config.maxRetries
  /\ upstream["u1"]
  /\ passthroughEnabled
  /\ ProbesInFlightOf("a") > 0

\* C15: getSchema(name) returns the stored schema without loading exactly
\* when an unexpired entry of the name exists; otherwise it starts a load,
\* and the load that succeeds stores a new entry, which is what is returned.
C15_GetSchemaHitIffUnexpired ==
  [][LET n == cacheEvent'.name
         unexpired == n \in DOMAIN cache /\ now < cache[n].expiresAt
     IN /\ cacheEvent'.kind \in {"hit", "miss"} =>
             /\ (cacheEvent'.kind = "hit") <=> unexpired
             /\ unexpired => /\ cacheEvent'.entry = cache[n]
                             /\ loads' = loads
                             /\ cache' = cache
             /\ ~unexpired => loads' = loads (+) LoadsFor({n}, "get")
        /\ (cacheEvent'.kind = "loaded" /\ cacheEvent'.op = "get") =>
             /\ n \in DOMAIN cache'
             /\ cache'[n] = cacheEvent'.entry
             /\ cache'[n].lastFetched = now
             /\ cache'[n].expiresAt = now + Ttl
    ]_vars

C15_Witness ==
  /\ cacheEvent.kind = "hit"
  /\ cacheEvent.entry = cache[cacheEvent.name]
  /\ now = cacheEvent.entry.expiresAt - 1
  /\ \E m \in DOMAIN cache : cache[m].expiresAt <= now

\* C16: an entry stored at time t answers has(name) with true at every time
\* in [t, t + Ttl) and with false from t + Ttl on, as long as it is the
\* stored entry of the name; a name without entry answers false.
C16_HasWithinTtl ==
  \A n \in Names :
    IF n \in DOMAIN cache
      THEN LET t == cache[n].lastFetched
           IN /\ t <= now
              /\ now < t + Ttl => Has(n)
              /\ now >= t + Ttl => ~Has(n)
      ELSE ~Has(n)

C16_Witness ==
  \E n \in DOMAIN cache, m \in DOMAIN cache :
    /\ now = cache[n].lastFetched + Ttl
    /\ ~Has(n)
    /\ now = cache[m].lastFetched + Ttl - 1
    /\ Has(m)

\* C17 as stated: a stored entry stays the entry of its name until it
\* expires, whatever reads, warm-ups and refresh cycles interleave.
C17_EntryKeptUntilExpiry ==
  [][\A n \in DOMAIN cache :
       cache[n].expiresAt > now' => (n \in DOMAIN cache' /\ cache'[n] = cache[n])
    ]_vars

\* C17 amended: a name that has an entry keeps having one, and its entry is
\* only ever replaced by the entry of a load that completes now, which is
\* never older and never expires earlier.
C17_EntryOnlyReplacedByNewer ==
  [][\A n \in DOMAIN cache :
       /\ n \in DOMAIN cache'
       /\ cache'[n].lastFetched >= cache[n].lastFetched
       /\ cache'[n].expiresAt >= cache[n].expiresAt
       /\ cache'[n] # cache[n] =>
            /\ cache'[n].lastFetched = now
            /\ cacheEvent'.kind = "loaded"
            /\ cacheEvent'.name = n
    ]_vars

C17_Witness ==
  /\ cacheEvent.kind = "loaded"
  /\ cacheEvent.op = "refresh"
  /\ cacheEvent.entry.lastFetched \in 1..(Ttl - 1)
  /\ cache[cacheEvent.name] = cacheEvent.entry

\* C18: startPeriodicRefresh on a running refresher throws, and there is
\* never more than one live interval timer, which is the one the
\* refreshInterval field holds.
C18_SingleRefresher ==
  /\ timers <= 1
  /\ refreshInterval <=> timers = 1
  /\ cacheEvent.kind = "startFailed" => (cacheEvent.raised /\ refreshInterval)

C18_Witness ==
  /\ cacheEvent.kind = "startFailed"
  /\ cacheEvent.raised
  /\ timers = 1
  /\ loads # EmptyBag

\* C19: a refresh cycle starts one load for every name that has an entry
\* when the cycle starts, expired or not, and for no other name.
C19_RefreshReloadsCachedNames ==
  [][cacheEvent'.kind = "refresh" =>
       /\ cacheEvent'.names = DOMAIN cache
       /\ loads' = loads (+) SetToBag({[name |-> n, op |-> "refresh"] : n \in DOMAIN cache})
    ]_vars

C19_Witness ==
  /\ cacheEvent.kind = "refresh"
  /\ cacheEvent.names # Names
  /\ \E n \in cacheEvent.names :
       /\ cache[n].expiresAt <= now
       /\ BagIn([name |-> n, op |-> "refresh"], loads)

\* C20: a load that fails in warmCache or in a refresh cycle raises nothing
\* and ends only itself: every other load stays in flight, the cache is
\* untouched, and a load that succeeds stores its entry.
C20_LoadFailureIsolated ==
  [][/\ (cacheEvent'.kind = "loadFailed" /\ cacheEvent'.op \in {"warm", "refresh"}) =>
          /\ ~cacheEvent'.raised
          /\ loads' = loads (-) SetToBag({[name |-> cacheEvent'.name,
                                           op |-> cacheEvent'.op]})
          /\ cache' = cache
     /\ cacheEvent'.kind = "warm" =>
          loads' = loads (+) SetToBag({[name |-> n, op |-> "warm"] : n \in cacheEvent'.names})
     /\ (cacheEvent'.kind = "loaded" /\ cacheEvent'.op \in {"warm", "refresh"}) =>
          /\ cacheEvent'.name \in DOMAIN cache'
          /\ cache'[cacheEvent'.name].lastFetched = now
    ]_vars

C20_Witness ==
  /\ cacheEvent.kind = "loadFailed"
  /\ cacheEvent.op \in {"warm", "refresh"}
  /\ ~cacheEvent.raised
  /\ \E l \in BagToSet(loads) : l.op = cacheEvent.op /\ l.name # cacheEvent.name
\* C21: right after SubgraphHealthMonitor.shutdown() has returned, whatever
\* was registered before, the monitor holds no subgraph state and no probe
\* timer.
C21_ShutdownLeavesNothing ==
  lastEvent.kind = "shutdown" => (states = << >> /\ healthCheckIntervals = {})

C21_Witness ==
  /\ lastEvent.kind = "shutdown"
  /\ registry # << >>
  /\ inflight # EmptyBag

\* C22: once the promise of server.stop has resolved, no background timer
\* is left: no per-subgraph probe timer, no registry-wide check timer, no
\* schema refresher.
C22_StopCancelsEveryTimer ==
  stopPc = "resolved"
  => (healthCheckIntervals = {} /\ ~checkInterval /\ timers = 0)

\* C23: when the grace window of stop has elapsed with requests still open
\* (the promise of stop is rejected), the listener is closed.
C23_ListenerClosedAtTimeout ==
  stopPc = "rejected" => server = "none"

\* C24: when initialization has returned (and before the refresher reloads
\* anything), every entry of the cache, all of them warmed, was loaded from
\* the source that the final configuration of its subgraph selects.
C24_WarmedFromFinalSource ==
  (initPc = "done" /\ server = "none" /\ ~isShuttingDown /\ ~refreshInterval)
  => \A n \in DOMAIN cache : loadedFrom[n] = SchemaSource(n)

\* C25: a request for a registered subgraph made with the same subgraph
\* state (config included) and the same global passthrough flag as an
\* earlier request for it gets the same passthrough-or-mock decision.
C25_SameInputsSameDecision ==
  (/\ IsRequest
   /\ lastEvent.name = remembered.name
   /\ lastEvent.name \in DOMAIN states
   /\ states[lastEvent.name] = remembered.state
   /\ passthroughEnabled = remembered.flag)
  => lastEvent.result = remembered.decision

\* C26: the load of a subgraph configured with useLocalSchema and a url
\* (source: introspection) does not fail while the registry has a schema
\* for the subgraph.
C26_IntrospectionFallsBackToRegistry ==
  (/\ cacheEvent.kind = "loadFailed"
   /\ SchemaSource(cacheEvent.name) = "introspection")
  => ~sourceOk[cacheEvent.name]

\* C27 (as stated): a proxy request that the route has dispatched and for
\* whose subgraph name no schema can be obtained is answered 404
\* SCHEMA_NOT_FOUND.
C27_NoSchemaIs404 ==
  (response.kind \in {"mock", "passthrough"} /\ ~response.cacheCanSupply)
  => (response.status = 404 /\ response.code = "SCHEMA_NOT_FOUND")

\* C27 (amended): a proxy request that is dispatched to the mock handler
\* with a non-empty string query, and for whose subgraph name no schema can
\* be obtained, is answered with one response, 404 SCHEMA_NOT_FOUND.
C27_MockWithoutSchemaIs404 ==
  (response.kind = "mock" /\ response.attempted /\ ~response.cacheCanSupply)
  => /\ response.status = 404
     /\ response.code = "SCHEMA_NOT_FOUND"
     /\ response.written = 1

C27_Witness ==
  /\ response.kind = "mock"
  /\ response.attempted
  /\ ~response.cacheCanSupply
  /\ response.name \notin DOMAIN states
  /\ response.status = 404

\* C28: when a probe returns with a failure, the other probes in flight
\* stay in flight (they return and update their state later), the states of
\* the other subgraphs are untouched, and the per-subgraph timers and the
\* registry-wide timer keep running.
C28_FailedProbeIsolated ==
  [][(lastEvent'.kind = "probe" /\ lastEvent'.result = "unhealthy")
     => /\ \E p \in BagToSet(inflight) :
             /\ p.name = lastEvent'.name
             /\ p.url = lastEvent'.url
             /\ inflight' = inflight (-) SetToBag({p})
        /\ healthCheckIntervals' = healthCheckIntervals
        /\ checkInterval' = checkInterval
        /\ \A n \in DOMAIN states \ {lastEvent'.name} :
             n \in DOMAIN states' /\ states'[n] = states[n]]_vars

C28_Witness ==
  /\ lastEvent.kind = "probe"
  /\ lastEvent.result = "unhealthy"
  /\ checkInterval
  /\ \E q \in BagToSet(inflight) : q.name # lastEvent.name
  /\ healthCheckIntervals = {"a", "b"}

\* C29: a failed upstream call of the PassThroughHandler is answered with
\* one response, and unless the cached SDL was served (which the route
\* never does) its status and code are the first that apply of:
\* ECONNABORTED 504 GATEWAY_TIMEOUT; ECONNREFUSED or ENOTFOUND 503
\* SERVICE_UNAVAILABLE; no HTTP response 502 BAD_GATEWAY; an axios error
\* with a response 500 INTERNAL_SERVER_ERROR; any other error 500
\* INTERNAL_SERVER_ERROR.
C29_ErrorMatrixInOrder ==
  (response.kind \in {"passthrough", "handler"} /\ response.error # NoError)
  => LET e == response.error
         pair == <<response.status, response.code>>
     IN /\ response.written = 1
        /\ response.cacheFallback => (response.kind = "handler" /\ response.status = 200)
        /\ ~response.cacheFallback =>
             IF e.axios /\ e.code = "ECONNABORTED"
               THEN pair = <<504, "GATEWAY_TIMEOUT">>
             ELSE IF e.axios /\ e.code \in {"ECONNREFUSED", "ENOTFOUND"}
               THEN pair = <<503, "SERVICE_UNAVAILABLE">>
             ELSE IF e.axios /\ ~e.response
               THEN pair = <<502, "BAD_GATEWAY">>
             ELSE pair = <<500, "INTERNAL_SERVER_ERROR">>

C29_Witness ==
  /\ response.kind = "passthrough"
  /\ response.error = [axios |-> TRUE, code |-> "ECONNABORTED", response |-> FALSE]
  /\ response.status = 504
  /\ response.code = "GATEWAY_TIMEOUT"

\* C30: when handleError has attempted the cache fallback and the
\* SchemaCache could not supply the schema, the answer is the error
\* response of the upstream failure, as without fallback, written once.
C30_FailedFallbackGivesNormalError ==
  (response.kind = "handler" /\ response.attempted /\ ~response.cacheCanSupply)
  => /\ ~response.cacheFallback
     /\ response.status = ErrorStatus(response.error)
     /\ response.code = ErrorCode(response.error)
     /\ response.mode = "none"
     /\ response.written = 1

C30_Witness ==
  /\ response.kind = "handler"
  /\ response.attempted
  /\ ~response.cacheCanSupply
  /\ response.status = 503
  /\ response.code = "SERVICE_UNAVAILABLE"

\* C34: a step that handles a proxy request, answers through a handler or
\* is an operation of the SchemaCache leaves every subgraph's state as it
\* was, and a step that changes a state is the return of a probe (at once
\* for a subgraph without url), a setHealth call or a registration.
C34_StateChangesOnlyByProbeSetHealthRegister ==
  [][/\ (lastEvent'.kind = "request" \/ response' # response
           \/ cacheVars' # cacheVars) => states' = states
     /\ states' # states =>
          \/ \E p \in BagToSet(inflight) : CompleteProbe(p)
          \/ TimerTick("a")
          \/ \E b \in BOOLEAN : SetHealth("a", b)
          \/ \E u \in OptUrls : RegisterSubgraph("a", u, DEFAULT_SUBGRAPH_CONFIG)]_vars

C34_Witness ==
  /\ IsRequest
  /\ response.kind = "passthrough"
  /\ response.error # NoError
  /\ lastEvent.name \in DOMAIN states
  /\ EventState.isHealthy
  /\ EventState.consecutiveFailures = 0

\* C35: a probe that returns for a subgraph which was re-registered with
\* another url while the probe was in flight leaves the state of the new
\* registration as it is.
C35_ProbeAppliedToItsRegistrationOnly ==
  [][(/\ lastEvent'.kind = "probe"
      /\ lastEvent'.name \in DOMAIN states
      /\ states[lastEvent'.name].url # lastEvent'.url)
     => states' = states]_vars

\* C37: a request for a registered subgraph N gets the decision that the
\* state of N itself gives, whatever other subgraphs are registered.
C37_DecisionByOwnState ==
  (IsRequest /\ lastEvent.name \in RegistryNames /\ lastEvent.name \in DOMAIN states)
    => lastEvent.result = DispatchWithStateOf(lastEvent.name)

\* C38: a probe that returns when the monitor holds no state (it was in
\* flight when shutdown ran) leaves the monitor without state.
C38_ProbeAfterShutdownChangesNothing ==
  [][(lastEvent'.kind = "probe" /\ states = << >>) => states' = << >>]_vars

C38_Witness ==
  /\ lastEvent.kind = "probe"
  /\ states = << >>
  /\ registry # << >>

\* C39: a name that is not in the registry (never registered, or removed by
\* unregisterSubgraph or clearAll) has no state and no probe timer in the
\* health monitor.
C39_RemovedNameLeavesNoStateNoTimer ==
  \A n \in DOMAIN states \cup healthCheckIntervals : n \in RegistryNames

\* C40: in every reachable state of the monitor a subgraph's isHealthy is
\* true exactly when its status is available, and a healthy subgraph has
\* no consecutive failures.
C40_HealthyIffAvailable ==
  \A n \in DOMAIN states :
    /\ states[n].isHealthy <=> (states[n].status = "available")
    /\ states[n].isHealthy => states[n].consecutiveFailures = 0

C40_Witness ==
  \E n \in DOMAIN states :
    /\ states[n].isHealthy
    /\ states[n].status = "available"
    /\ states[n].config.forceMock
    /\ lastEvent.kind = "probe"

\* C36: a failed schema load leaves the cache as it was: no entry is
\* removed, replaced, renewed or added by the step in which a load fails.
C36_FailedLoadLeavesCache ==
  [][cacheEvent'.kind = "loadFailed" => cache' = cache]_vars

C36_Witness ==
  /\ cacheEvent.kind = "loadFailed"
  /\ cacheEvent.name \in DOMAIN cache
  /\ cache[cacheEvent.name].expiresAt <= now

RefreshLoads(b) == {l \in BagToSet(b) : l.op = "refresh"}

\* C33: while periodic refresh is stopped, no refresh happens: no refresh
\* cycle starts a load and no load of a refresh cycle writes a cache entry.
C33_NoRefreshWhileStopped ==
  [][(~refreshInterval /\ ~refreshInterval')
       => /\ cacheEvent'.kind # "refresh"
          /\ ~(cacheEvent'.kind = "loaded" /\ cacheEvent'.op = "refresh")]_vars

\* C33 (amended): while periodic refresh is stopped no refresh cycle
\* starts and no refresh load is added to the loads in flight; the loads a
\* cycle started before the stop still return.
C33_NoRefreshStartsWhileStopped ==
  [][(~refreshInterval /\ ~refreshInterval')
       => /\ cacheEvent'.kind # "refresh"
          /\ \A l \in RefreshLoads(loads') :
               CopiesIn(l, loads') <= CopiesIn(l, loads)]_vars

C33_Witness ==
  /\ ~refreshInterval
  /\ timers = 0
  /\ cacheEvent.kind = "loaded"
  /\ cacheEvent.op = "refresh"
  /\ cache[cacheEvent.name] = cacheEvent.entry

Attempts == Len(introspection.responses)

Threw(k) == PerformIntrospection(introspection.responses[k]).threw

\* C31: an introspect call makes at most maxRetries+1 attempts, waits
\* retryDelayMs between two consecutive attempts, makes no attempt after one
\* that returned, reports failure only after exactly maxRetries+1 attempts
\* that all failed, and always ends with a result.
C31_RetryShape ==
  /\ Attempts <= introspection.maxRetries + 1
  /\ \A k \in 1..(Attempts - 1) : Threw(k)
  /\ Len(introspection.waits) =
       IF introspection.pc = "attempting" \/ Attempts = 0
         THEN Attempts ELSE Attempts - 1
  /\ \A k \in DOMAIN introspection.waits :
       introspection.waits[k] = introspection.retryDelayMs
  /\ introspection.result = "failure" =>
       /\ Attempts = introspection.maxRetries + 1
       /\ \A k \in 1..Attempts : Threw(k)
  /\ introspection.pc = "done" <=> introspection.result \in {"success", "failure"}

C31_BoundedRetryTerminates ==
  /\ []C31_RetryShape
  /\ (introspection.pc \in {"attempting", "delaying"})
       ~> (introspection.pc = "done")

C31_Witness ==
  /\ introspection.pc = "done"
  /\ introspection.result = "failure"
  /\ introspection.maxRetries > 0
  /\ Attempts = introspection.maxRetries + 1
  /\ Len(introspection.waits) = introspection.maxRetries

\* C32: an introspect call reports success only for an attempt whose
\* response carries a non-empty sdl string, and a response with a missing
\* or empty sdl does not end the retry loop before the attempts are used up.
C32_SuccessOnlyWithSdl ==
  introspection.pc = "done" =>
    /\ introspection.result = "success" =>
         /\ introspection.responses[Attempts] = "sdl"
         /\ introspection.sdl \notin {"", "undefined"}
    /\ Attempts < introspection.maxRetries + 1 =>
         introspection.responses[Attempts] = "sdl"

====
